---- MODULE Spec2Model ----
(***************************************************************************)
(* A model of load_from_tsfile_to_dataframe (src/create_bundle.py), the    *)
(* parser of the .ts time-series format.  A line of text is a sequence of  *)
(* one-character strings; the parser reads one line per step and ends      *)
(* either by raising an exception or by returning the table and labels.    *)
(***************************************************************************)
EXTENDS Integers, Sequences, FiniteSets, TLC

(***************************************************************************)
(* Text primitives: the Python str operations the parser uses.             *)
(***************************************************************************)

SetMin(S) == CHOOSE m \in S : \A n \in S : m <= n

SetMax(S) == CHOOSE m \in S : \A n \in S : m >= n

\* A character is a one-character string of Latin-1 (U+0000 to U+00FF); the
\* tables of str.lower, str.isspace and of the digits are those of Latin-1.

\* the characters c with c.lower() # c: A to Z, and U+00C0 to U+00DE but U+00D7
UpperChars == <<"A","B","C","D","E","F","G","H","I","J","K","L","M",
                "N","O","P","Q","R","S","T","U","V","W","X","Y","Z",
                "À","Á","Â","Ã","Ä","Å","Æ","Ç","È","É","Ê","Ë","Ì","Í","Î",
                "Ï","Ð","Ñ","Ò","Ó","Ô","Õ","Ö","Ø","Ù","Ú","Û","Ü","Ý","Þ">>

LowerChars == <<"a","b","c","d","e","f","g","h","i","j","k","l","m",
                "n","o","p","q","r","s","t","u","v","w","x","y","z",
                "à","á","â","ã","ä","å","æ","ç","è","é","ê","ë","ì","í","î",
                "ï","ð","ñ","ò","ó","ô","õ","ö","ø","ù","ú","û","ü","ý","þ">>

DigitChars == <<"0","1","2","3","4","5","6","7","8","9">>

\* str.isspace on one character: space, tab, line feed, form feed, carriage
\* return, U+000B, U+001C to U+001F, U+0085 and U+00A0
IsSpace(c) ==
    c \in {" ", "\t", "\n", "\f", "\r", "", "", "", "", "", "", " "}

IsDigit(c) == \E i \in 1..10 : DigitChars[i] = c

DigitVal(c) == (CHOOSE i \in 1..10 : DigitChars[i] = c) - 1

\* the lower-case letter of each upper-case letter
LowerOf == [c \in {UpperChars[i] : i \in 1..Len(UpperChars)} |->
               LowerChars[CHOOSE i \in 1..Len(UpperChars) : UpperChars[i] = c]]

LowerChar(c) == IF c \in DOMAIN LowerOf THEN LowerOf[c] ELSE c

\* str.lower
Lower(s) == [i \in 1..Len(s) |-> LowerChar(s[i])]

\* str.strip
Strip(s) ==
    LET keep == {i \in 1..Len(s) : ~IsSpace(s[i])}
    IN  IF keep = {} THEN <<>> ELSE SubSeq(s, SetMin(keep), SetMax(keep))

\* str.startswith
StartsWith(s, p) == Len(s) >= Len(p) /\ SubSeq(s, 1, Len(p)) = p

\* str.split(sep) for a one-character separator
RECURSIVE Split(_, _)
Split(s, sep) ==
    LET at == {i \in 1..Len(s) : s[i] = sep}
    IN  IF at = {} THEN <<s>>
        ELSE LET i == SetMin(at)
             IN  <<SubSeq(s, 1, i - 1)>> \o Split(SubSeq(s, i + 1, Len(s)), sep)

\* str.replace(old, new) for a one-character old
RECURSIVE Replace(_, _, _)
Replace(s, old, new) ==
    IF s = <<>> THEN <<>>
    ELSE (IF Head(s) = old THEN new ELSE <<Head(s)>>) \o Replace(Tail(s), old, new)

\* str.find(c): the first occurrence in place of the last
FindFirst(s, c) ==
    LET at == {i \in 1..Len(s) : s[i] = c}
    IN  IF at = {} THEN -1 ELSE SetMin(at) - 1

\* str.rfind(c): 0-based index of the last occurrence, -1 when there is none
RFind(s, c) ==
    LET at == {i \in 1..Len(s) : s[i] = c}
    IN  IF at = {} THEN -1 ELSE SetMax(at) - 1

\* s is made of digits only
OnlyDigits(s) == s # <<>> /\ \A i \in 1..Len(s) : IsDigit(s[i])

\* the digits of a literal of int() or float(): digits, with single
\* underscores allowed between two digits
AllDigits(s) ==
    /\ s # <<>>
    /\ \A i \in 1..Len(s) :
           \/ IsDigit(s[i])
           \/ /\ s[i] = "_" /\ 1 < i /\ i < Len(s)
              /\ IsDigit(s[i - 1]) /\ IsDigit(s[i + 1])

\* the number written by the digits of s, its underscores passed over
RECURSIVE DigitsVal(_)
DigitsVal(s) ==
    IF s = <<>> THEN 0
    ELSE IF s[Len(s)] = "_" THEN DigitsVal(SubSeq(s, 1, Len(s) - 1))
    ELSE 10 * DigitsVal(SubSeq(s, 1, Len(s) - 1)) + DigitVal(s[Len(s)])

IsSign(c) == c \in {"+", "-"}

Unsigned(s) == IF s # <<>> /\ IsSign(s[1]) THEN Tail(s) ELSE s

SignOf(s) == IF s # <<>> /\ s[1] = "-" THEN -1 ELSE 1

\* the white space that int() and float() pass over around a literal: that
\* of str.isspace but U+001C to U+001F
IsLiteralSpace(c) == IsSpace(c) /\ c \notin {"", "", "", ""}

StripLiteral(s) ==
    LET keep == {i \in 1..Len(s) : ~IsLiteralSpace(s[i])}
    IN  IF keep = {} THEN <<>> ELSE SubSeq(s, SetMin(keep), SetMax(keep))

\* int(s) succeeds: optional surrounding white space, optional sign, digits
IsInt(s) == AllDigits(Unsigned(StripLiteral(s)))

IntValue(s) == SignOf(StripLiteral(s)) * DigitsVal(Unsigned(StripLiteral(s)))

NanWord == <<"n","a","n">>

InfWord == <<"i","n","f">>

InfinityWord == <<"i","n","f","i","n","i","t","y">>

\* the mantissa of a decimal literal: digits, digits '.', digits '.' digits, '.' digits
IsMantissa(m) ==
    LET parts == Split(m, ".")
    IN  \/ Len(parts) = 1 /\ AllDigits(parts[1])
        \/ /\ Len(parts) = 2
           /\ parts[1] \o parts[2] # <<>>
           /\ \A i \in 1..2 : parts[i] = <<>> \/ AllDigits(parts[i])

IsExponent(e) == AllDigits(Unsigned(e))

IsDecimal(b) ==
    LET parts == Split(b, "e")
    IN  \/ Len(parts) = 1 /\ IsMantissa(parts[1])
        \/ Len(parts) = 2 /\ IsMantissa(parts[1]) /\ IsExponent(parts[2])

\* float(s) succeeds
IsFloat(s) ==
    LET b == Unsigned(Lower(StripLiteral(s)))
    IN  b \in {NanWord, InfWord, InfinityWord} \/ IsDecimal(b)

RECURSIVE Normal(_, _)
Normal(mant, exp) ==
    IF mant = 0 THEN <<0, 0>>
    ELSE IF mant % 10 = 0 THEN Normal(mant \div 10, exp + 1)
    ELSE <<mant, exp>>

RECURSIVE Pow(_, _)
Pow(b, n) == IF n = 0 THEN 1 ELSE b * Pow(b, n - 1)

RECURSIVE DecimalDigits(_)
DecimalDigits(n) == IF n < 10 THEN 1 ELSE 1 + DecimalDigits(n \div 10)

\* the first nine digits of mant (of ten digits at most), and its tenth
Lead9(mant) ==
    IF DecimalDigits(mant) = 10 THEN mant \div 10
    ELSE mant * Pow(10, 9 - DecimalDigits(mant))

Tenth(mant) == IF DecimalDigits(mant) = 10 THEN mant % 10 ELSE 0

\* mant * 10^exp is above 0.d1...d9 d10 * 10^e, for nine digits lead and tenth d10
Above(mant, exp, e, lead, tenth) ==
    LET mine == DecimalDigits(mant) + exp
    IN  \/ mine > e
        \/ /\ mine = e
           /\ \/ Lead9(mant) > lead
              \/ Lead9(mant) = lead /\ Tenth(mant) > tenth

\* the number of digits of s
DigitCount(s) == Cardinality({i \in 1..Len(s) : IsDigit(s[i])})

\* float(s) as sign * mant * 10^exp (mant not divisible by 10), or nan, or
\* inf: a literal of 2^1024 - 2^970 = 1.7976931348623158e308 or more is inf,
\* one of 2^-1075 = 2.4703282292062327e-324 or less is zero.  The mantissa
\* is at most 2^31 - 1; between the two limits the record stands for the
\* double nearest to mant * 10^exp
FloatValue(s) ==
    LET t == Lower(StripLiteral(s))
        b == Unsigned(t)
    IN  IF b = NanWord THEN [cls |-> "nan", sign |-> 1, mant |-> 0, exp |-> 0]
        ELSE IF b \in {InfWord, InfinityWord}
        THEN [cls |-> "inf", sign |-> SignOf(t), mant |-> 0, exp |-> 0]
        ELSE LET eparts == Split(b, "e")
                 mparts == Split(eparts[1], ".")
                 frac   == IF Len(mparts) = 2 THEN mparts[2] ELSE <<>>
                 e      == IF Len(eparts) = 2
                           THEN SignOf(eparts[2]) * DigitsVal(Unsigned(eparts[2]))
                           ELSE 0
                 n      == Normal(DigitsVal(mparts[1] \o frac), e - DigitCount(frac))
             IN  IF n[1] # 0 /\ Above(n[1], n[2], 309, 179769313, 4)
                 THEN [cls |-> "inf", sign |-> SignOf(t), mant |-> 0, exp |-> 0]
                 ELSE IF n[1] # 0 /\ ~Above(n[1], n[2], -323, 247032822, 9)
                 THEN [cls |-> "fin", sign |-> SignOf(t), mant |-> 0, exp |-> 0]
                 ELSE [cls |-> "fin", sign |-> SignOf(t), mant |-> n[1], exp |-> n[2]]

(***************************************************************************)
(* Time markers and series.  A time marker is an int, the text of a        *)
(* timestamp, or (in a DatetimeIndex) a calendar date or NaT; the default  *)
(* index of a Series numbers its positions.                                *)
(***************************************************************************)

Marker(kind, val, text) == [kind |-> kind, val |-> val, text |-> text]

DaysIn(y, m) ==
    IF m \in {4, 6, 9, 11} THEN 30
    ELSE IF m # 2 THEN 31
    ELSE IF y % 4 = 0 /\ (y % 100 # 0 \/ y % 400 = 0) THEN 29
    ELSE 28

\* s is a calendar date written YYYY-MM-DD
IsIsoDate(s) ==
    /\ Len(s) = 10
    /\ s[5] = "-" /\ s[8] = "-"
    /\ OnlyDigits(SubSeq(s, 1, 4)) /\ OnlyDigits(SubSeq(s, 6, 7))
    /\ OnlyDigits(SubSeq(s, 9, 10))
    /\ LET y == DigitsVal(SubSeq(s, 1, 4))
           m == DigitsVal(SubSeq(s, 6, 7))
           d == DigitsVal(SubSeq(s, 9, 10))
       IN  y >= 1 /\ m \in 1..12 /\ d \in 1..DaysIn(y, m)

\* s is a time of day written HH:MM
IsClock(s) ==
    /\ Len(s) = 5 /\ s[3] = ":"
    /\ OnlyDigits(SubSeq(s, 1, 2)) /\ OnlyDigits(SubSeq(s, 4, 5))
    /\ DigitsVal(SubSeq(s, 1, 2)) < 24 /\ DigitsVal(SubSeq(s, 4, 5)) < 60

\* s is a calendar date and a time of day written YYYY-MM-DD HH:MM
IsIsoDateTime(s) ==
    /\ Len(s) = 16 /\ s[11] = " "
    /\ IsIsoDate(SubSeq(s, 1, 10)) /\ IsClock(SubSeq(s, 12, 16))

MonthNames ==
    << <<"j","a","n">>, <<"f","e","b">>, <<"m","a","r">>, <<"a","p","r">>,
       <<"m","a","y">>, <<"j","u","n">>, <<"j","u","l">>, <<"a","u","g">>,
       <<"s","e","p">>, <<"o","c","t">>, <<"n","o","v">>, <<"d","e","c">> >>

MonthOf(name) == CHOOSE m \in 1..12 : MonthNames[m] = name

\* s is a calendar date written mon D, YYYY, as in "jan 1, 2021"
IsNamedDate(s) ==
    LET w == Split(s, " ")
    IN  /\ Len(w) = 3
        /\ \E m \in 1..12 : MonthNames[m] = Lower(w[1])
        /\ Len(w[2]) \in 2..3 /\ w[2][Len(w[2])] = ","
        /\ OnlyDigits(SubSeq(w[2], 1, Len(w[2]) - 1))
        /\ Len(w[3]) = 4 /\ OnlyDigits(w[3])
        /\ DigitsVal(w[3]) >= 1
        /\ DigitsVal(SubSeq(w[2], 1, Len(w[2]) - 1))
               \in 1..DaysIn(DigitsVal(w[3]), MonthOf(Lower(w[1])))

\* pd.DatetimeIndex accepts the text: the empty text (NaT), calendar dates
\* and a date with a time of day are; a text that is no date or time in any
\* notation is not
DateParses(s) == s = <<>> \/ IsIsoDate(s) \/ IsIsoDateTime(s) \/ IsNamedDate(s)

\* the day as YYYYMMDD in val, and in text the time of day HHMM unless midnight
DateValue(s) ==
    IF s = <<>> THEN Marker("nat", 0, <<>>)
    ELSE IF IsNamedDate(s)
    THEN LET w == Split(s, " ")
         IN  Marker("date", 10000 * DigitsVal(w[3])
                            + 100 * MonthOf(Lower(w[1]))
                            + DigitsVal(SubSeq(w[2], 1, Len(w[2]) - 1)), <<>>)
    ELSE Marker("date", 10000 * DigitsVal(SubSeq(s, 1, 4))
                        + 100 * DigitsVal(SubSeq(s, 6, 7))
                        + DigitsVal(SubSeq(s, 9, 10)),
                IF Len(s) = 10 \/ SubSeq(s, 12, 16) = <<"0","0",":","0","0">>
                THEN <<>>
                ELSE SubSeq(s, 12, 13) \o SubSeq(s, 15, 16))

\* pd.DatetimeIndex(timestamp_for_dim) raises
DatetimeIndexFails(ts) == \E i \in 1..Len(ts) : ~DateParses(ts[i].text)

DatetimeIndex(ts) == [i \in 1..Len(ts) |-> DateValue(ts[i].text)]

\* pd.Series(dtype=...) with no data
EmptySeries(dtype) == [index |-> <<>>, data |-> <<>>, dtype |-> dtype]

\* pd.Series(data): the default index
PlainSeries(data) ==
    [index |-> [i \in 1..Len(data) |-> Marker("pos", i - 1, <<>>)],
     data |-> data, dtype |-> "float64"]

\* pd.Series(index=index, data=data)
IndexedSeries(index, data) == [index |-> index, data |-> data, dtype |-> "float64"]

(***************************************************************************)
(* The tags of the format, and the exceptions the parser can end with.     *)
(***************************************************************************)

TagProblemName == <<"@","p","r","o","b","l","e","m","n","a","m","e">>

TagTimestamps == <<"@","t","i","m","e","s","t","a","m","p","s">>

TagUnivariate == <<"@","u","n","i","v","a","r","i","a","t","e">>

TagClassLabel == <<"@","c","l","a","s","s","l","a","b","e","l">>

TagData == <<"@","d","a","t","a">>

WordTrue == <<"t","r","u","e">>

WordFalse == <<"f","a","l","s","e">>

\* num_dimensions = None
NoneDim == -1

NoExc == [type |-> "None", msg |-> "", line |-> 0, dim |-> 0]

\* raise TsFileParseException(msg); ln and dim are the numbers the message names
\* (0 when the message names none)
ParseError(msg, ln, dim) ==
    [type |-> "TsFileParseException", msg |-> msg, line |-> ln, dim |-> dim]

\* an exception raised by Python or pandas, not by the parser
OtherError(type) == [type |-> type, msg |-> "", line |-> 0, dim |-> 0]

NoResult == [kind |-> "None", columns |-> <<>>, X |-> <<>>, y |-> <<>>]

(***************************************************************************)
(* State: the parameters and locals of load_from_tsfile_to_dataframe, the  *)
(* line last read, and how the call ended.                                 *)
(***************************************************************************)
VARIABLES
    return_separate_X_and_y,      \* parameter
    replace_missing_vals_with,    \* parameter
    metadata_started, data_started,
    has_problem_name_tag, has_timestamps_tag, has_univariate_tag,
    has_class_labels_tag, has_data_tag,
    timestamps,                   \* "Unbound", "True", "False"
    class_labels,                 \* "Unbound", "True", "False"
    class_label_list,
    previous_timestamp_was_int,   \* "None", "True", "False"
    prev_timestamp_was_timestamp, \* "None", "True", "False"
    scan,                         \* the locals of the scan of a line with timestamps
    num_dimensions,
    is_first_case,
    instance_list,
    class_val_list,
    line_num,
    line,                         \* the line read by the last step, as read
    status,                       \* "reading", "raised", "returned"
    exc,                          \* the exception raised
    result,                       \* the value returned
    x,                            \* the array of __main__, once encoded and squeezed
    ndata,                        \* history: data lines read without an exception
    matched                       \* history: the lines read, while they are Example's

params == <<return_separate_X_and_y, replace_missing_vals_with>>

tagFlags == <<has_problem_name_tag, has_timestamps_tag, has_univariate_tag,
              has_class_labels_tag, has_data_tag>>

metaVars == <<metadata_started, data_started, tagFlags, timestamps,
              class_labels, class_label_list>>

stampVars == <<previous_timestamp_was_int, prev_timestamp_was_timestamp, scan>>

dataVars == <<stampVars, num_dimensions, is_first_case, instance_list,
              class_val_list>>

endVars == <<status, exc, result>>

histVars == <<ndata>>

vars == <<params, metaVars, dataVars, line_num, line, endVars, x, histVars, matched>>

(***************************************************************************)
(* The input: every step reads one more line, any line of Lines.           *)
(***************************************************************************)

\* the most lines a file has
MaxLines == 7

Sp == <<" ">>

LineProblemName == TagProblemName \o Sp \o <<"X">>

LineTimestampsTrue == TagTimestamps \o Sp \o WordTrue

LineTimestampsFalse == TagTimestamps \o Sp \o WordFalse

LineUnivariate == TagUnivariate \o Sp \o WordTrue

LineClassLabelTrue == TagClassLabel \o Sp \o WordTrue \o <<" ","A"," ","B">>

LineClassLabelFalse == TagClassLabel \o Sp \o WordFalse

LineClassLabelFalseTokens == LineClassLabelFalse \o <<" ","x">>

LineClassLabelMissing == TagClassLabel \o Sp \o WordTrue \o <<" ","a"," ","?">>

MetaLines ==
    { LineProblemName, LineTimestampsTrue, LineTimestampsFalse, LineUnivariate,
      LineClassLabelTrue, LineClassLabelFalse, LineClassLabelFalseTokens,
      LineClassLabelMissing, TagData }

\* tag lines that fail validation
BadMetaLines ==
    { TagProblemName,
      TagTimestamps \o Sp \o <<"y","e","s">>,
      TagUnivariate \o Sp \o WordTrue \o Sp \o <<"x">>,
      TagClassLabel \o Sp \o WordTrue,
      TagData \o Sp \o <<"x">> }

\* blank lines, and a line that is neither a tag nor blank
OtherLines == { <<>>, <<" ">>, <<"#"," ","x">> }

\* data lines without timestamps
PlainLines ==
    { <<"1",",","2",",","3",":","A">>,
      <<"4",",","5",",","6",":","B">>,
      <<"1",":","2",":","a">>,
      <<":","a">>,
      <<"1",",","2">>,
      <<"1",":","c">>,
      <<"1",",","x",":","a">>,
      <<"1",",","?",":","a">>,
      <<"1","6","7","7","7","2","1","7",":","a">> }

\* data lines with timestamps
StampLines ==
    { <<"(","1",",","2",")",":","a">>,
      <<"(","1",",","2",")",",","(","2",",","3",")",":","b">>,
      <<"(","1",",","2",")">>,
      <<"(","1",",","2",")",":">>,
      <<"(","1",",","2",")",":","(","1",",","3",")",":","a">>,
      <<"(","1",",","2",")",":","c">>,
      <<"(","2","0","2","1","-","0","1","-","0","1",",","5",")",":","a">>,
      <<"(","x",",","5",")",",","(","1",",","2",")",":","a">>,
      <<"(","1",",","2",")",",","(","x",",","5",")",":","a">>,
      <<"(","1",",","2",")",",",":","a">>,
      <<"(","1",",","2",":","a">>,
      <<"(","1","2",")",":","a">>,
      <<"(","1",",","x",")",":","a">>,
      <<"(","1",",","?",")",":","a">>,
      <<"(","2","0","2","1","-","0","1","-","0","1"," ","1","0",":","0","0",",","5",")",":","a">>,
      <<"(","J","a","n"," ","1",","," ","2","0","2","1",",","6",")",":","a">>,
      <<"(","1",",","2",")",":","(","2","0","2","1","-","0","1","-","0","1",",","5",")",":","a">>,
      <<"(","2","0","2","1","-","0","1","-","0","1",",","5",")",":","(","1",",","2",")",":","a">>,
      <<"(","x",",","5",")",":","(","1",",","2",")",":","a">>,
      <<":",":">>,
      <<":">> }

\* the file of the documentation's example
Example ==
    << LineProblemName, LineTimestampsFalse, LineUnivariate, LineClassLabelTrue,
       TagData,
       <<"1",",","2",",","3",":","A">>,
       <<"4",",","5",",","6",":","B">> >>

Lines == MetaLines \cup BadMetaLines \cup OtherLines \cup PlainLines \cup StampLines

\* the values of replace_missing_vals_with
Replacements == { <<"N","a","N">>, <<"0">> }

(***************************************************************************)
(* One step of the loop over the lines of the file.                        *)
(***************************************************************************)

\* Clean without lower()
CleanNoLower(raw) == Strip(raw)

\* line = line.strip().lower()
Clean(raw) == Lower(Strip(raw))

\* Clean, tabulated over the lines of the input
Cleaned == [raw \in Lines |-> Clean(raw)]

\* the branch of the if/elif chain that the text of a cleaned line selects
TagBranch(l) ==
    IF l = <<>> THEN "blank"
    ELSE IF StartsWith(l, TagProblemName) THEN "problemname"
    ELSE IF StartsWith(l, TagTimestamps) THEN "timestamps"
    ELSE IF StartsWith(l, TagUnivariate) THEN "univariate"
    ELSE IF StartsWith(l, TagClassLabel) THEN "classlabel"
    ELSE IF StartsWith(l, TagData) THEN "data tag"
    ELSE "elif data_started"

\* TagBranch, tabulated over the lines of the input
TagBranches == [raw \in Lines |-> TagBranch(Cleaned[raw])]

\* the last branch of the chain is taken when the data has started
LastBranch(b) ==
    IF b # "elif data_started" THEN b
    ELSE IF data_started THEN "data"
    ELSE "ignored"

\* the branch of the if/elif chain that handles a cleaned line
Branch(l) == LastBranch(TagBranch(l))

\* the loop reads the line raw, handled by branch b
Reads(raw, b) ==
    /\ status = "reading"
    /\ line_num < MaxLines
    /\ raw \in Lines
    /\ LastBranch(TagBranches[raw]) = b
    /\ line' = raw
    /\ matched' = IF /\ matched = line_num /\ line_num < Len(Example)
                     /\ raw = Example[line_num + 1]
                  THEN matched + 1
                  ELSE 0

\* the handler raises e: the call ends, line_num is not incremented
Raise(e) ==
    /\ status' = "raised"
    /\ exc' = e
    /\ UNCHANGED <<result, line_num, x>>

\* the handler completes: line_num += 1
Continue ==
    /\ line_num' = line_num + 1
    /\ UNCHANGED <<endVars, x>>

OrderError == ParseError("metadata must come before data", 0, 0)

\* SkipStep that also forgets that the metadata has started
SkipStepForgets ==
    /\ Continue
    /\ metadata_started' = FALSE
    /\ UNCHANGED <<params, data_started, tagFlags, timestamps, class_labels,
                   class_label_list, dataVars, histVars>>

\* a line that no branch handles: only line_num changes
SkipStep ==
    /\ Continue
    /\ UNCHANGED <<params, metaVars, dataVars, histVars>>

BlankLine ==
    \E raw \in Lines :
        /\ Reads(raw, "blank")
        /\ SkipStep

IgnoredLine ==
    \E raw \in Lines :
        /\ Reads(raw, "ignored")
        /\ SkipStep

ProblemNameChecks(l) ==
    IF data_started THEN OrderError
    ELSE IF Len(Split(l, " ")) = 1
    THEN ParseError("problemname tag requires an associated value", 0, 0)
    ELSE NoExc

\* the problemname branch on the cleaned line l
ProblemNameStep(l) ==
    LET e == ProblemNameChecks(l)
    IN  IF e # NoExc
        THEN /\ Raise(e)
             /\ UNCHANGED <<params, metaVars, dataVars, histVars>>
        ELSE /\ has_problem_name_tag' = TRUE
             /\ metadata_started' = TRUE
             /\ Continue
             /\ UNCHANGED <<params, data_started, has_timestamps_tag,
                            has_univariate_tag, has_class_labels_tag,
                            has_data_tag, timestamps, class_labels,
                            class_label_list, dataVars, histVars>>

ProblemNameLine ==
    \E raw \in Lines :
        /\ Reads(raw, "problemname")
        /\ ProblemNameStep(Cleaned[raw])

\* TimestampsChecks without the check that the value is true or false
TimestampsChecksAnyValue(l) ==
    LET tokens == Split(l, " ")
    IN  IF data_started THEN OrderError
        ELSE IF Len(tokens) # 2
        THEN ParseError("timestamps tag requires an associated Boolean value", 0, 0)
        ELSE NoExc

TimestampsChecks(l) ==
    LET tokens == Split(l, " ")
    IN  IF data_started THEN OrderError
        ELSE IF Len(tokens) # 2
        THEN ParseError("timestamps tag requires an associated Boolean value", 0, 0)
        ELSE IF tokens[2] \notin {WordTrue, WordFalse}
        THEN ParseError("invalid timestamps value", 0, 0)
        ELSE NoExc

\* the timestamps branch on the cleaned line l
TimestampsStep(l) ==
    LET e == TimestampsChecks(l)
    IN  IF e # NoExc
        THEN /\ Raise(e)
             /\ UNCHANGED <<params, metaVars, dataVars, histVars>>
        ELSE /\ timestamps' = IF Split(l, " ")[2] = WordTrue
                              THEN "True" ELSE "False"
             /\ has_timestamps_tag' = TRUE
             /\ metadata_started' = TRUE
             /\ Continue
             /\ UNCHANGED <<params, data_started, has_problem_name_tag,
                            has_univariate_tag, has_class_labels_tag,
                            has_data_tag, class_labels,
                            class_label_list, dataVars, histVars>>

TimestampsLine ==
    \E raw \in Lines :
        /\ Reads(raw, "timestamps")
        /\ TimestampsStep(Cleaned[raw])

UnivariateChecks(l) ==
    LET tokens == Split(l, " ")
    IN  IF data_started THEN OrderError
        ELSE IF Len(tokens) # 2
        THEN ParseError("univariate tag requires an associated Boolean  value", 0, 0)
        ELSE IF tokens[2] \notin {WordTrue, WordFalse}
        THEN ParseError("invalid univariate value", 0, 0)
        ELSE NoExc

\* the univariate branch on the cleaned line l
UnivariateStep(l) ==
    LET e == UnivariateChecks(l)
    IN  IF e # NoExc
        THEN /\ Raise(e)
             /\ UNCHANGED <<params, metaVars, dataVars, histVars>>
        ELSE /\ has_univariate_tag' = TRUE
             /\ metadata_started' = TRUE
             /\ Continue
             /\ UNCHANGED <<params, data_started, has_problem_name_tag,
                            has_timestamps_tag, has_class_labels_tag,
                            has_data_tag, timestamps, class_labels,
                            class_label_list, dataVars, histVars>>

UnivariateLine ==
    \E raw \in Lines :
        /\ Reads(raw, "univariate")
        /\ UnivariateStep(Cleaned[raw])

\* ClassLabelChecks without the check that class values follow "true"
ClassLabelChecksNoValues(l) ==
    LET tokens == Split(l, " ")
    IN  IF data_started THEN OrderError
        ELSE IF Len(tokens) = 1
        THEN ParseError("classlabel tag requires an associated Boolean  value", 0, 0)
        ELSE IF tokens[2] \notin {WordTrue, WordFalse}
        THEN ParseError("invalid classLabel value", 0, 0)
        ELSE NoExc

\* ClassLabelChecks without the check that the data has not started
ClassLabelChecksNoOrder(l) ==
    LET tokens == Split(l, " ")
    IN  IF Len(tokens) = 1
        THEN ParseError("classlabel tag requires an associated Boolean  value", 0, 0)
        ELSE IF tokens[2] \notin {WordTrue, WordFalse}
        THEN ParseError("invalid classLabel value", 0, 0)
        ELSE IF Len(tokens) = 2 /\ tokens[2] = WordTrue
        THEN ParseError("if the classlabel tag is true then class values must be supplied", 0, 0)
        ELSE NoExc

ClassLabelChecks(l) ==
    LET tokens == Split(l, " ")
    IN  IF data_started THEN OrderError
        ELSE IF Len(tokens) = 1
        THEN ParseError("classlabel tag requires an associated Boolean  value", 0, 0)
        ELSE IF tokens[2] \notin {WordTrue, WordFalse}
        THEN ParseError("invalid classLabel value", 0, 0)
        ELSE IF Len(tokens) = 2 /\ tokens[2] = WordTrue
        THEN ParseError("if the classlabel tag is true then class values must be supplied", 0, 0)
        ELSE NoExc

\* the classlabel branch on the cleaned line l
ClassLabelStep(l) ==
    LET e == ClassLabelChecks(l)
        tokens == Split(l, " ")
    IN  IF e # NoExc
        THEN /\ Raise(e)
             \* class_labels = True (line 183) comes before the raise of line 194
             /\ class_labels' =
                    IF ~data_started /\ Len(tokens) = 2 /\ tokens[2] = WordTrue
                    THEN "True" ELSE class_labels
             /\ UNCHANGED <<params, metadata_started, data_started, tagFlags,
                            timestamps, class_label_list, dataVars, histVars>>
        ELSE /\ class_labels' = IF tokens[2] = WordTrue THEN "True" ELSE "False"
             /\ has_class_labels_tag' = TRUE
             /\ class_label_list' =
                    [i \in 1..(Len(tokens) - 2) |-> Strip(tokens[i + 2])]
             /\ metadata_started' = TRUE
             /\ Continue
             /\ UNCHANGED <<params, data_started, has_problem_name_tag,
                            has_timestamps_tag, has_univariate_tag,
                            has_data_tag, timestamps, dataVars, histVars>>

ClassLabelLine ==
    \E raw \in Lines :
        /\ Reads(raw, "classlabel")
        /\ ClassLabelStep(Cleaned[raw])

DataTagChecks(l) ==
    IF l # TagData
    THEN ParseError("data tag should not have an associated value", 0, 0)
    ELSE IF data_started /\ ~metadata_started THEN OrderError
    ELSE NoExc

\* the data tag branch on the cleaned line l
DataTagStep(l) ==
    LET e == DataTagChecks(l)
    IN  IF e # NoExc
        THEN /\ Raise(e)
             /\ UNCHANGED <<params, metaVars, dataVars, histVars>>
        ELSE /\ has_data_tag' = TRUE
             /\ data_started' = TRUE
             /\ Continue
             /\ UNCHANGED <<params, metadata_started, has_problem_name_tag,
                            has_timestamps_tag, has_univariate_tag,
                            has_class_labels_tag, timestamps, class_labels,
                            class_label_list, dataVars, histVars>>

DataTagLine ==
    \E raw \in Lines :
        /\ Reads(raw, "data tag")
        /\ DataTagStep(Cleaned[raw])

(***************************************************************************)
(* A data line without timestamps.                                         *)
(***************************************************************************)

\* FullMetadata without the univariate tag
FullMetadataNoUnivariate ==
    /\ has_problem_name_tag /\ has_timestamps_tag
    /\ has_class_labels_tag /\ has_data_tag

FullMetadata ==
    /\ has_problem_name_tag /\ has_timestamps_tag /\ has_univariate_tag
    /\ has_class_labels_tag /\ has_data_tag

MetadataError ==
    ParseError("a full set of metadata has not been provided before the data", 0, 0)

\* the data branch without the replace
SubstituteNothing(l) == l

\* line = line.replace("?", replace_missing_vals_with)
Substitute(l) == Replace(l, "?", replace_missing_vals_with)

\* the locals a data line can change, and the exception it raised
DataState ==
    [exc |-> NoExc,
     num_dimensions |-> num_dimensions,
     is_first_case |-> is_first_case,
     instance_list |-> instance_list,
     class_val_list |-> class_val_list,
     previous_timestamp_was_int |-> previous_timestamp_was_int,
     prev_timestamp_was_timestamp |-> prev_timestamp_was_timestamp]

\* instance_list[dim].append(series), dim counted from 0
AppendTo(il, dim, series) == [il EXCEPT ![dim + 1] = Append(@, series)]

\* if len(instance_list) < dim + 1: instance_list.append([])
Ensure(il, dim) == IF Len(il) < dim + 1 THEN Append(il, <<>>) ELSE il

\* [float(i) for i in dimension.split(",")] raises ValueError
FloatsFail(dimension) ==
    \E i \in 1..Len(Split(dimension, ",")) : ~IsFloat(Split(dimension, ",")[i])

Floats(dimension) ==
    [i \in 1..Len(Split(dimension, ",")) |-> FloatValue(Split(dimension, ",")[i])]

\* the loop over the dimensions of the line, from dimension dim on
RECURSIVE PlainDims(_, _, _)
PlainDims(st, dimensions, dim) ==
    IF dim >= st.num_dimensions THEN st
    ELSE LET dimension == Strip(dimensions[dim + 1])
         IN  IF dimension = <<>>
             THEN PlainDims([st EXCEPT !.instance_list =
                                AppendTo(@, dim, EmptySeries("object"))],
                            dimensions, dim + 1)
             ELSE IF FloatsFail(dimension)
             THEN [st EXCEPT !.exc = OtherError("ValueError")]
             ELSE PlainDims([st EXCEPT !.instance_list =
                                AppendTo(@, dim, PlainSeries(Floats(dimension)))],
                            dimensions, dim + 1)

\* PlainLabel without the append to class_val_list
PlainLabelNone(st, dimensions) == st

\* class_val_list.append(dimensions[num_dimensions].strip())
PlainLabel(st, dimensions) ==
    IF st.exc = NoExc /\ class_labels = "True"
    THEN [st EXCEPT !.class_val_list =
                        Append(@, Strip(dimensions[st.num_dimensions + 1]))]
    ELSE st

\* len(dimensions), less one when class labels are declared
PlainDimCount(dimensions) ==
    IF class_labels = "True" THEN Len(dimensions) - 1 ELSE Len(dimensions)

\* the first case fixes num_dimensions and creates the columns
PlainFirstCase(st, dimensions) ==
    IF st.is_first_case
    THEN [st EXCEPT !.num_dimensions = PlainDimCount(dimensions),
                    !.instance_list =
                        @ \o [i \in 1..PlainDimCount(dimensions) |-> <<>>],
                    !.is_first_case = FALSE]
    ELSE st

DimensionError == ParseError("inconsistent number of dimensions", 0, 0)

\* PlainData with "<" for "!=" in the comparison of the dimensions
PlainDataLessOnly(l) ==
    LET dimensions == Split(l, ":")
        st == PlainFirstCase(DataState, dimensions)
    IN  IF PlainDimCount(dimensions) < st.num_dimensions
        THEN [st EXCEPT !.exc = DimensionError]
        ELSE PlainLabel(PlainDims(st, dimensions, 0), dimensions)

\* the else branch of "if timestamps" on the substituted line l
PlainData(l) ==
    LET dimensions == Split(l, ":")
        st == PlainFirstCase(DataState, dimensions)
    IN  IF PlainDimCount(dimensions) # st.num_dimensions
        THEN [st EXCEPT !.exc = DimensionError]
        ELSE PlainLabel(PlainDims(st, dimensions, 0), dimensions)

(***************************************************************************)
(* A data line with timestamps: the character scanner.  A scan state is    *)
(* DataState with the locals of the scan; char_num counts from 0.          *)
(***************************************************************************)

\* the locals of the scan before the first line with timestamps: not yet bound
NoScan ==
    [bound |-> FALSE,
     has_another_value |-> FALSE,
     has_another_dimension |-> FALSE,
     timestamp_for_dim |-> <<>>,
     values_for_dimension |-> <<>>,
     this_line_num_dim |-> 0,
     char_num |-> 0]

\* the locals of the scan as the scan state sc leaves them
ScanLocals(sc) ==
    [bound |-> TRUE,
     has_another_value |-> sc.has_another_value,
     has_another_dimension |-> sc.has_another_dimension,
     timestamp_for_dim |-> sc.timestamp_for_dim,
     values_for_dimension |-> sc.values_for_dimension,
     this_line_num_dim |-> sc.this_line_num_dim,
     char_num |-> sc.char_num]

\* ScanStart without the assignments before the loop, but for char_num
ScanStartKeeps ==
    [exc |-> NoExc,
     num_dimensions |-> num_dimensions,
     is_first_case |-> is_first_case,
     instance_list |-> instance_list,
     class_val_list |-> class_val_list,
     previous_timestamp_was_int |-> previous_timestamp_was_int,
     prev_timestamp_was_timestamp |-> prev_timestamp_was_timestamp,
     has_another_value |-> scan.has_another_value,
     has_another_dimension |-> scan.has_another_dimension,
     timestamp_for_dim |-> scan.timestamp_for_dim,
     values_for_dimension |-> scan.values_for_dimension,
     this_line_num_dim |-> scan.this_line_num_dim,
     char_num |-> 0]

\* the scan state at the start of a line: lines 242-254 assign the locals
ScanStart ==
    [exc |-> NoExc,
     num_dimensions |-> num_dimensions,
     is_first_case |-> is_first_case,
     instance_list |-> instance_list,
     class_val_list |-> class_val_list,
     previous_timestamp_was_int |-> previous_timestamp_was_int,
     prev_timestamp_was_timestamp |-> prev_timestamp_was_timestamp,
     has_another_value |-> FALSE,
     has_another_dimension |-> FALSE,
     timestamp_for_dim |-> <<>>,
     values_for_dimension |-> <<>>,
     this_line_num_dim |-> 0,
     char_num |-> 0]

\* while char_num < line_len and str.isspace(line[char_num]): char_num += 1
RECURSIVE SkipSpaces(_, _)
SkipSpaces(l, n) ==
    IF n < Len(l) /\ IsSpace(l[n + 1]) THEN SkipSpaces(l, n + 1) ELSE n

\* while char_num < line_len and line[char_num] != ")": char_num += 1
RECURSIVE FindClose(_, _)
FindClose(l, n) ==
    IF n < Len(l) /\ l[n + 1] # ")" THEN FindClose(l, n + 1) ELSE n

ScanError(sc, msg) ==
    [sc EXCEPT !.exc = ParseError(msg, line_num + 1, sc.this_line_num_dim + 1)]

\* an error whose message names the line but no dimension
LineError(sc, msg) == [sc EXCEPT !.exc = ParseError(msg, line_num + 1, 0)]

\* line[char_num] == ":" where a dimension starts: an empty dimension
EmptyDimension(sc, at) ==
    [sc EXCEPT !.instance_list =
                   AppendTo(Ensure(@, sc.this_line_num_dim), sc.this_line_num_dim,
                            EmptySeries("object")),
               !.this_line_num_dim = @ + 1,
               !.has_another_value = FALSE,
               !.has_another_dimension = TRUE,
               !.timestamp_for_dim = <<>>,
               !.values_for_dimension = <<>>,
               !.char_num = at + 1]

\* the class label is the rest of the line
ClassValue(sc, l, at) ==
    LET class_val == Strip(SubSeq(l, at + 1, Len(l)))
    IN  IF \A i \in 1..Len(class_label_list) : class_label_list[i] # class_val
        THEN LineError([sc EXCEPT !.char_num = at], "the class value is not valid")
        ELSE [sc EXCEPT !.class_val_list = Append(@, class_val),
                        !.char_num = Len(l),
                        !.has_another_value = FALSE,
                        !.has_another_dimension = FALSE,
                        !.timestamp_for_dim = <<>>,
                        !.values_for_dimension = <<>>]

\* the flags set by the character after the tuple, which ends at 'after'
AfterTuple(sc, l, after) ==
    IF after >= Len(l)
    THEN [sc EXCEPT !.has_another_value = FALSE, !.has_another_dimension = FALSE,
                    !.char_num = after + 1]
    ELSE IF l[after + 1] = ","
    THEN [sc EXCEPT !.has_another_value = TRUE, !.has_another_dimension = FALSE,
                    !.char_num = after + 1]
    ELSE IF l[after + 1] = ":"
    THEN [sc EXCEPT !.has_another_value = FALSE, !.has_another_dimension = TRUE,
                    !.char_num = after + 1]
    ELSE [sc EXCEPT !.char_num = after + 1]

\* timestamp = int(timestamp) succeeds
TimestampIsInt(timestamp) == IsInt(timestamp)

\* the time marker stored for the tuple
TimestampOf(timestamp) ==
    IF TimestampIsInt(timestamp) THEN Marker("int", IntValue(timestamp), <<>>)
    ELSE Marker("text", 0, Strip(timestamp))

\* Inconsistent without the test of an int after a textual timestamp
InconsistentOneWay(sc, timestamp_is_int) ==
    sc.previous_timestamp_was_int = "True" /\ ~timestamp_is_int

\* the timestamp kind of the tuple differs from the kind of the file
Inconsistent(sc, timestamp_is_int) ==
    \/ sc.previous_timestamp_was_int = "True" /\ ~timestamp_is_int
    \/ sc.prev_timestamp_was_timestamp = "True" /\ timestamp_is_int

\* the first tuple of the file fixes the timestamp kind
NoteKind(sc, timestamp_is_int) ==
    LET a == IF sc.prev_timestamp_was_timestamp = "None" /\ ~timestamp_is_int
             THEN [sc EXCEPT !.prev_timestamp_was_timestamp = "True",
                             !.previous_timestamp_was_int = "False"]
             ELSE sc
    IN  IF a.previous_timestamp_was_int = "None" /\ timestamp_is_int
        THEN [a EXCEPT !.prev_timestamp_was_timestamp = "False",
                       !.previous_timestamp_was_int = "True"]
        ELSE a

\* if not has_another_value: the dimension is complete and is stored
StoreDimension(sc, timestamp_is_int) ==
    IF sc.has_another_value THEN sc
    ELSE LET il == Ensure(sc.instance_list, sc.this_line_num_dim)
         IN  IF ~timestamp_is_int /\ DatetimeIndexFails(sc.timestamp_for_dim)
             THEN [sc EXCEPT !.instance_list = il,
                             !.exc = OtherError("ValueError")]
             ELSE [sc EXCEPT
                     !.instance_list =
                         AppendTo(il, sc.this_line_num_dim,
                                  IndexedSeries(
                                      IF timestamp_is_int THEN sc.timestamp_for_dim
                                      ELSE DatetimeIndex(sc.timestamp_for_dim),
                                      sc.values_for_dimension)),
                     !.this_line_num_dim = @ + 1,
                     !.timestamp_for_dim = <<>>,
                     !.values_for_dimension = <<>>]

\* the tuple that starts at 'at'
Tuple(sc, l, at) ==
    LET close == FindClose(l, at + 1)
        tuple_data == SubSeq(l, at + 2, close)
        sc1 == AfterTuple(sc, l, SkipSpaces(l, close + 1))
        last_comma_index == RFind(tuple_data, ",")
        value == SubSeq(tuple_data, last_comma_index + 2, Len(tuple_data))
        timestamp == SubSeq(tuple_data, 1, last_comma_index)
        timestamp_is_int == TimestampIsInt(timestamp)
    IN  IF l[at + 1] # "(" /\ class_labels # "True"
        THEN ScanError([sc EXCEPT !.char_num = at], "does not start with a '('")
        ELSE IF close >= Len(l)
        THEN ScanError([sc EXCEPT !.char_num = close], "does not end with a ')'")
        ELSE IF last_comma_index = -1
        THEN ScanError(sc1, "contains a tuple that has no comma inside of it")
        ELSE IF ~IsFloat(value)
        THEN ScanError(sc1, "contains a tuple that does not have a valid numeric value")
        ELSE IF Inconsistent(sc1, timestamp_is_int)
        THEN ScanError(sc1, "contains tuples where the timestamp format is inconsistent")
        ELSE StoreDimension(
                 NoteKind([sc1 EXCEPT
                              !.timestamp_for_dim = Append(@, TimestampOf(timestamp)),
                              !.values_for_dimension = Append(@, FloatValue(value))],
                          timestamp_is_int),
                 timestamp_is_int)

\* the end of the line was reached inside the loop, after white space
LineEnds(sc, at) ==
    LET sc1 == [sc EXCEPT !.char_num = at]
    IN  IF sc.has_another_value
        THEN ScanError(sc1, "ends with a ',' that is not followed by another tuple")
        ELSE IF sc.has_another_dimension /\ class_labels = "True"
        THEN ScanError(sc1, "ends with a ':' while it should list a class value")
        ELSE IF sc.has_another_dimension
        THEN [sc1 EXCEPT !.instance_list =
                             AppendTo(Ensure(@, sc.this_line_num_dim),
                                      sc.this_line_num_dim, EmptySeries("float32")),
                         !.this_line_num_dim = @ + 1,
                         !.num_dimensions = sc.this_line_num_dim + 1]
        ELSE sc1

MismatchError(sc) ==
    LineError(sc, "does not have the same number of dimensions as the previous line of data")

\* at the end of each pass of the loop: note or compare the dimensions
NoteDimensions(sc) ==
    IF sc.exc # NoExc \/ sc.has_another_value \/ sc.has_another_dimension THEN sc
    ELSE LET sc1 == IF sc.num_dimensions = NoneDim
                    THEN [sc EXCEPT !.num_dimensions = sc.this_line_num_dim]
                    ELSE sc
         IN  IF sc1.num_dimensions # sc1.this_line_num_dim
             THEN MismatchError(sc1)
             ELSE sc1

\* one pass of "while char_num < line_len"
ScanPass(sc, l) ==
    LET at == SkipSpaces(l, sc.char_num)
    IN  NoteDimensions(
            IF at >= Len(l) THEN LineEnds(sc, at)
            ELSE IF l[at + 1] = ":" THEN EmptyDimension(sc, at)
            ELSE IF l[at + 1] # "(" /\ class_labels = "True" THEN ClassValue(sc, l, at)
            ELSE Tuple(sc, l, at))

RECURSIVE ScanLoop(_, _)
ScanLoop(sc, l) ==
    IF sc.exc # NoExc \/ sc.char_num >= Len(l) THEN sc
    ELSE ScanLoop(ScanPass(sc, l), l)

\* after the loop: what the line still expects, and the checks on the line
ScanEnd(sc) ==
    LET sc1 == IF sc.has_another_dimension /\ ~sc.has_another_value
                  /\ class_labels # "True"
               THEN [sc EXCEPT !.instance_list =
                                   AppendTo(Ensure(@, sc.this_line_num_dim),
                                            sc.this_line_num_dim, EmptySeries("object")),
                               !.this_line_num_dim = @ + 1,
                               !.num_dimensions = sc.this_line_num_dim + 1]
               ELSE sc
    IN  IF sc.exc # NoExc THEN sc
        ELSE IF sc.has_another_value
        THEN ScanError(sc, "ends with a ',' that is not followed by another tuple")
        ELSE IF sc.has_another_dimension /\ class_labels = "True"
        THEN ScanError(sc, "ends with a ':' while it should list a class value")
        ELSE IF sc1.num_dimensions # sc1.this_line_num_dim
        THEN MismatchError(sc1)
        ELSE IF class_labels = "True" /\ Len(sc1.class_val_list) = 0
        THEN [sc1 EXCEPT !.exc = ParseError("the cases have no associated class values", 0, 0)]
        ELSE sc1

\* the "if timestamps" branch on the substituted line l
StampData(l) == ScanEnd(ScanLoop(ScanStart, l))

(***************************************************************************)
(* The data branch of the loop.                                            *)
(***************************************************************************)

\* the locals of the data branch become those of st
Stores(st) ==
    /\ num_dimensions' = st.num_dimensions
    /\ is_first_case' = st.is_first_case
    /\ instance_list' = st.instance_list
    /\ class_val_list' = st.class_val_list
    /\ previous_timestamp_was_int' = st.previous_timestamp_was_int
    /\ prev_timestamp_was_timestamp' = st.prev_timestamp_was_timestamp
    /\ scan' = IF "char_num" \in DOMAIN st THEN ScanLocals(st) ELSE scan

\* the data branch ends as st says: with its exception, or with the line done
Ends(st) ==
    /\ Stores(st)
    /\ IF st.exc # NoExc
       THEN Raise(st.exc) /\ UNCHANGED histVars
       ELSE Continue /\ ndata' = ndata + 1

\* a line of data before the metadata is complete
NoMetadataStep ==
    /\ ~FullMetadata
    /\ Raise(MetadataError)
    /\ UNCHANGED <<params, metaVars, dataVars, histVars>>

DataLineWithoutMetadata ==
    \E raw \in Lines :
        /\ Reads(raw, "data")
        /\ NoMetadataStep

\* the data branch without timestamps on the cleaned line l
PlainDataStep(l) ==
    /\ FullMetadata
    /\ timestamps # "True"
    /\ Ends(PlainData(Substitute(l)))
    /\ UNCHANGED <<params, metaVars>>

PlainDataLine ==
    \E raw \in Lines :
        /\ Reads(raw, "data")
        /\ PlainDataStep(Cleaned[raw])

\* the data branch with timestamps on the cleaned line l
StampDataStep(l) ==
    /\ FullMetadata
    /\ timestamps = "True"
    /\ Ends(StampData(Substitute(l)))
    /\ UNCHANGED <<params, metaVars>>

StampDataLine ==
    \E raw \in Lines :
        /\ Reads(raw, "data")
        /\ StampDataStep(Cleaned[raw])

(***************************************************************************)
(* After the loop: the checks on the whole file, and the value returned.   *)
(***************************************************************************)

\* the float NaN that pandas puts where a column has no value
MissingLabel == <<"float('nan')">>

ColumnName(dim) == "dim_" \o ToString(dim)

\* FileChecks with "no metadata" taken for "no line"
FileChecksNoMetadataIsEmpty ==
    IF line_num = 0 \/ ~metadata_started THEN ParseError("empty file", 0, 0)
    ELSE IF ~FullMetadata
    THEN ParseError("metadata incomplete", 0, 0)
    ELSE IF ~data_started
    THEN ParseError("file contained metadata but no data", 0, 0)
    ELSE IF Len(instance_list) = 0
    THEN ParseError("file contained metadata but no data", 0, 0)
    ELSE IF num_dimensions = NoneDim
    THEN OtherError("TypeError")
    ELSE IF num_dimensions > Len(instance_list)
    THEN OtherError("IndexError")
    ELSE IF \E d \in 2..num_dimensions : Len(instance_list[d]) # Len(instance_list[1])
    THEN OtherError("ValueError")
    ELSE NoExc

\* FileChecks without the test "data_started and len(instance_list) == 0"
FileChecksNoInstances ==
    IF line_num = 0 THEN ParseError("empty file", 0, 0)
    ELSE IF metadata_started /\ ~FullMetadata
    THEN ParseError("metadata incomplete", 0, 0)
    ELSE IF metadata_started /\ ~data_started
    THEN ParseError("file contained metadata but no data", 0, 0)
    ELSE IF num_dimensions = NoneDim
    THEN OtherError("TypeError")
    ELSE IF num_dimensions > Len(instance_list)
    THEN OtherError("IndexError")
    ELSE IF \E d \in 2..num_dimensions : Len(instance_list[d]) # Len(instance_list[1])
    THEN OtherError("ValueError")
    ELSE IF class_labels = "Unbound"
    THEN OtherError("UnboundLocalError")
    ELSE NoExc

\* the exception raised after the last line, NoExc when the call returns
FileChecks ==
    IF line_num = 0 THEN ParseError("empty file", 0, 0)
    ELSE IF metadata_started /\ ~FullMetadata
    THEN ParseError("metadata incomplete", 0, 0)
    ELSE IF metadata_started /\ ~data_started
    THEN ParseError("file contained metadata but no data", 0, 0)
    ELSE IF metadata_started /\ data_started /\ Len(instance_list) = 0
    THEN ParseError("file contained metadata but no data", 0, 0)
    ELSE IF num_dimensions = NoneDim
    THEN OtherError("TypeError")          \* range(0, None)
    ELSE IF num_dimensions > Len(instance_list)
    THEN OtherError("IndexError")         \* instance_list[dim]
    ELSE IF \E d \in 2..num_dimensions : Len(instance_list[d]) # Len(instance_list[1])
    THEN OtherError("ValueError")         \* a column longer or shorter than the index
    ELSE IF class_labels = "Unbound"
    THEN OtherError("UnboundLocalError")
    ELSE NoExc

\* the number of rows of the table
Rows == IF num_dimensions = 0 THEN 0 ELSE Len(instance_list[1])

\* data["class_vals"] = pd.Series(class_val_list): aligned with the rows
ClassVals ==
    [i \in 1..Rows |-> IF i <= Len(class_val_list) THEN class_val_list[i]
                       ELSE MissingLabel]

\* the value returned when return_separate_X_and_y is separate
ReturnedFor(separate) ==
    LET names == [d \in 1..num_dimensions |-> ColumnName(d - 1)]
        X == [d \in 1..num_dimensions |-> instance_list[d]]
    IN  IF class_labels # "True"
        THEN [kind |-> "frame", columns |-> names, X |-> X, y |-> <<>>]
        ELSE IF separate
        THEN [kind |-> "tuple", columns |-> names, X |-> X, y |-> class_val_list]
        ELSE [kind |-> "frame", columns |-> Append(names, "class_vals"),
              X |-> X, y |-> ClassVals]

\* the value returned
Returned == ReturnedFor(return_separate_X_and_y)

EndOfFile ==
    /\ status = "reading"
    /\ IF FileChecks # NoExc
       THEN /\ status' = "raised"
            /\ exc' = FileChecks
            /\ UNCHANGED result
       ELSE /\ status' = "returned"
            /\ result' = Returned
            /\ UNCHANGED exc
    /\ UNCHANGED <<params, metaVars, dataVars, line_num, line, x, histVars, matched>>

(***************************************************************************)
(* __main__: the table of a file parsed with the default arguments is      *)
(* encoded as one array of float32, padded with EoS.                       *)
(***************************************************************************)

RECURSIVE BitLength(_)
BitLength(n) == IF n = 0 THEN 0 ELSE 1 + BitLength(n \div 2)

\* the whole number n < 2^30 rounded to 24 significant bits, ties to even
Round24(n) ==
    IF BitLength(n) <= 24 THEN n
    ELSE LET u == Pow(2, BitLength(n) - 24)
             q == n \div u
             r == n % u
         IN  IF 2 * r > u \/ (2 * r = u /\ q % 2 = 1) THEN (q + 1) * u ELSE q * u

\* the float32 that numpy stores for the float v: nan, inf and zero as they
\* are; a whole number below 10^9 rounded to 24 bits; a fraction that 24
\* bits hold as it is; a number of 2^128 - 2^103 = 3.4028235677973366e38 or
\* more as inf; a number of 2^-150 = 7.006492321624085e-46 or less as zero;
\* any other number as cls "single", the float32 nearest to v, which is not
\* computed here
Float32(v) ==
    IF v.cls # "fin" \/ v.mant = 0 THEN v
    ELSE IF v.exp >= 0 /\ DecimalDigits(v.mant) + v.exp <= 9
    THEN LET n == Normal(Round24(v.mant * Pow(10, v.exp)), 0)
         IN  [cls |-> "fin", sign |-> v.sign, mant |-> n[1], exp |-> n[2]]
    ELSE IF Above(v.mant, v.exp, 39, 340282356, 7)
    THEN [cls |-> "inf", sign |-> v.sign, mant |-> 0, exp |-> 0]
    ELSE IF ~Above(v.mant, v.exp, -45, 700649232, 1)
    THEN [cls |-> "fin", sign |-> v.sign, mant |-> 0, exp |-> 0]
    ELSE IF /\ v.exp < 0 /\ v.exp >= -12
            /\ v.mant % Pow(5, -v.exp) = 0
            /\ BitLength(v.mant \div Pow(5, -v.exp)) <= 24
    THEN v
    ELSE [cls |-> "single", sign |-> v.sign, mant |-> v.mant, exp |-> v.exp]

\* EoS of wildboar.utils.variable_len: "We use -INF to represent end of sequence"
EoS == [cls |-> "inf", sign |-> -1, mant |-> 0, exp |-> 0]

\* df_x.shape
n_samples(X) == Len(X[1])

n_dims(X) == Len(X)

\* the length of the first instance in place of the greatest length
n_timestep_first(X) == SetMax({Len(X[d][1].data) : d \in 1..Len(X)})

\* max(max(df_x[col].loc[i].size for i in range(len(df_x[col]))) for col in df_x)
n_timestep(X) ==
    SetMax({Len(X[d][i].data) : d \in 1..Len(X), i \in 1..Len(X[1])})

\* an array: its shape and its cells, nested along the axes of the shape (an
\* array of shape <<>> is one cell)
Array(shape, data) == [shape |-> shape, data |-> data]

\* no array yet
NoArray == Array(<<0>>, <<>>)

\* np.full(..., EoS, dtype=np.float32), then x[sample, dim, :len] = values
Encoded(X) ==
    Array(<<n_samples(X), n_dims(X), n_timestep(X)>>,
          [sample \in 1..n_samples(X) |->
              [dim \in 1..n_dims(X) |->
                  [t \in 1..n_timestep(X) |->
                      IF t <= Len(X[dim][sample].data)
                      THEN Float32(X[dim][sample].data[t])
                      ELSE EoS]]])

\* the shape without its axes of length one
RECURSIVE SqueezedShape(_)
SqueezedShape(shape) ==
    IF shape = <<>> THEN <<>>
    ELSE IF Head(shape) = 1 THEN SqueezedShape(Tail(shape))
    ELSE <<Head(shape)>> \o SqueezedShape(Tail(shape))

\* the cells of an array of the shape, nested along its axes longer than one
RECURSIVE SqueezedData(_, _)
SqueezedData(data, shape) ==
    IF shape = <<>> THEN data
    ELSE IF Head(shape) = 1 THEN SqueezedData(data[1], Tail(shape))
    ELSE [k \in 1..Head(shape) |-> SqueezedData(data[k], Tail(shape))]

\* np.squeeze: the array without its axes of length one
Squeeze(a) == Array(SqueezedShape(a.shape), SqueezedData(a.data, a.shape))

\* df_x, y = load_from_tsfile_to_dataframe(...) raises, or the loops after it
\* do: a table without labels is not a pair
UnpackError ==
    IF result.kind = "tuple" THEN NoExc
    ELSE IF Len(result.columns) = 2 THEN OtherError("TypeError")
    ELSE OtherError("ValueError")

\* lines 769-798, after a call with the default arguments has returned: the
\* table is encoded and the array squeezed; the assertion of lines 795-798
\* holds of every array, float32 to float64 being exact
Encode ==
    /\ status = "returned"
    /\ return_separate_X_and_y = TRUE
    /\ replace_missing_vals_with = <<"N","a","N">>
    /\ IF UnpackError # NoExc
       THEN /\ status' = "raised"
            /\ exc' = UnpackError
            /\ UNCHANGED x
       ELSE /\ status' = "encoded"
            /\ x' = Squeeze(Encoded(result.X))
            /\ UNCHANGED exc
    /\ UNCHANGED <<params, metaVars, dataVars, line_num, line, result, histVars, matched>>

(***************************************************************************)
(* The specification.                                                      *)
(***************************************************************************)

\* the locals as lines 60-77 set them, nothing read and nothing raised yet
Fresh ==
    /\ metadata_started = FALSE
    /\ data_started = FALSE
    /\ has_problem_name_tag = FALSE
    /\ has_timestamps_tag = FALSE
    /\ has_univariate_tag = FALSE
    /\ has_class_labels_tag = FALSE
    /\ has_data_tag = FALSE
    /\ timestamps = "Unbound"
    /\ class_labels = "Unbound"
    /\ class_label_list = <<>>
    /\ previous_timestamp_was_int = "None"
    /\ prev_timestamp_was_timestamp = "None"
    /\ scan = NoScan
    /\ num_dimensions = NoneDim
    /\ is_first_case = TRUE
    /\ instance_list = <<>>
    /\ class_val_list = <<>>
    /\ line_num = 0
    /\ line = <<>>
    /\ status = "reading"
    /\ exc = NoExc
    /\ result = NoResult
    /\ x = NoArray
    /\ ndata = 0
    /\ matched = 0

\* the arguments of a call: both ways to return the labels with the default
\* replacement, and the other replacement
Arguments ==
    { <<TRUE, <<"N","a","N">> >>, <<FALSE, <<"N","a","N">> >>, <<TRUE, <<"0">> >> }

Init ==
    /\ \E a \in Arguments :
           /\ return_separate_X_and_y = a[1]
           /\ replace_missing_vals_with = a[2]
    /\ Fresh

Next ==
    \/ BlankLine
    \/ IgnoredLine
    \/ ProblemNameLine
    \/ TimestampsLine
    \/ UnivariateLine
    \/ ClassLabelLine
    \/ DataTagLine
    \/ DataLineWithoutMetadata
    \/ PlainDataLine
    \/ StampDataLine
    \/ EndOfFile
    \/ Encode

Spec == Init /\ [][Next]_vars

(***************************************************************************)
(* The claims.  The line read last is 'line'; these say what it is without *)
(* the parser's own classification.                                        *)
(***************************************************************************)

LastLine == Cleaned[line]

LastIsMetaTag ==
    \/ StartsWith(LastLine, TagProblemName)
    \/ StartsWith(LastLine, TagTimestamps)
    \/ StartsWith(LastLine, TagUnivariate)
    \/ StartsWith(LastLine, TagClassLabel)

\* the last line is neither blank nor a tag line
LastIsData ==
    /\ LastLine # <<>>
    /\ ~LastIsMetaTag
    /\ ~StartsWith(LastLine, TagData)

FourTags ==
    /\ has_problem_name_tag /\ has_timestamps_tag
    /\ has_univariate_tag /\ has_class_labels_tag

AllFiveTags == FourTags /\ has_data_tag

IsParseError(msg) ==
    status = "raised" /\ exc.type = "TsFileParseException" /\ exc.msg = msg

InVocabulary(label) ==
    \E j \in 1..Len(class_label_list) : class_label_list[j] = label

\* C1: once @data has been seen, a line that begins with @problemname,
\* @timestamps, @univariate or @classlabel ends the parse with the error
\* "metadata must come before data" and no result, however many data lines
\* were read before it.
C1_MetadataAfterDataAborts ==
    (data_started /\ LastIsMetaTag)
        => (IsParseError("metadata must come before data") /\ result = NoResult)

\* a tag line was rejected after a data line had been read and stored
C1_Witness ==
    /\ IsParseError("metadata must come before data")
    /\ LastIsMetaTag
    /\ ndata >= 1
    /\ instance_list # <<>>

\* C2: a data line becomes an instance only when all five tags have been
\* seen; a data line read without them ends the parse with a parse error; a
\* parse that returns has seen all five tags.
C2_DataNeedsAllTags ==
    /\ (ndata > 0 \/ instance_list # <<>> \/ status = "returned") => AllFiveTags
    /\ (data_started /\ ~AllFiveTags /\ LastIsData)
           => IsParseError("a full set of metadata has not been provided before the data")

\* a parse of two data lines returned
C2_Witness == status = "returned" /\ ndata >= 2 /\ AllFiveTags

\* C3: when @data is reached before the other four tags have all been seen,
\* the parse ends in a parse error, whether or not a data line follows.
C3_EarlyDataTagIsParseError ==
    (status # "reading" /\ has_data_tag /\ ~FourTags)
        => (status = "raised" /\ exc.type = "TsFileParseException")

\* C4: when class labels are declared, every label of a returned result is
\* one of the labels declared on the @classlabel line.
C4_LabelsInVocabulary ==
    (status = "returned" /\ class_labels = "True")
        => \A i \in 1..Len(class_val_list) : InVocabulary(class_val_list[i])

\* C5: when class labels are declared, after any sequence of accepted data
\* lines there is one label per data line and every dimension column is as
\* long as the label list.
C5_OneLabelPerInstance ==
    (status = "reading" /\ class_labels = "True" /\ AllFiveTags)
        => /\ Len(class_val_list) = ndata
           /\ \A d \in 1..Len(instance_list) :
                  Len(instance_list[d]) = Len(class_val_list)

(***************************************************************************)
(* Data lines, as the format describes them.                               *)
(***************************************************************************)

\* the line read by the step, cleaned and with '?' substituted
Substituted ==
    [r \in Replacements |-> [raw \in Lines |-> Replace(Cleaned[raw], "?", r)]]

NextLine == Substituted[replace_missing_vals_with][line']

LastSubstituted == Substituted[replace_missing_vals_with][line]

\* the step reads a line: it completes the line or raises from its handler
ReadsLine == line_num' = line_num + 1 \/ (status' = "raised" /\ ~EndOfFile)

\* the step is the end of the file
FileEnds == status' # "reading" /\ line_num' = line_num /\ EndOfFile

ColonCount(l) == Cardinality({i \in 1..Len(l) : l[i] = ":"})

\* the ':'-separated segments of l, less the label when labels are declared
DimensionsOf(l) ==
    IF class_labels = "True" THEN ColonCount(l) ELSE ColonCount(l) + 1

\* a dimension without timestamps: empty, or numbers separated by ','
NumberList(dimension) ==
    \/ dimension = <<>>
    \/ \A i \in 1..Len(Split(dimension, ",")) : IsFloat(Split(dimension, ",")[i])

LabelOf(l) == Strip(Split(l, ":")[ColonCount(l) + 1])

\* l is <dim0>:...:<dimD-1>:<label>, D >= 1, the label one of the vocabulary
WellFormedPlain(l) ==
    /\ ColonCount(l) >= 1
    /\ InVocabulary(LabelOf(l))
    /\ \A d \in 1..ColonCount(l) : NumberList(Strip(Split(l, ":")[d]))

\* the parser is reading the data of a labelled file without timestamps
PlainLabelled ==
    /\ status = "reading" /\ AllFiveTags /\ data_started
    /\ timestamps = "False" /\ class_labels = "True"

\* the table and the labels hold L instances of D dimensions
TableHolds(D, L) ==
    /\ num_dimensions = D
    /\ Len(instance_list) = D
    /\ \A d \in 1..D : Len(instance_list[d]) = L
    /\ Len(class_val_list) = L
    /\ \A i \in 1..L : InVocabulary(class_val_list[i])

\* TableHolds(D, L) of the state the step leads to
TableHoldsNext(D, L) ==
    /\ num_dimensions' = D
    /\ Len(instance_list') = D
    /\ \A d \in 1..D : Len(instance_list'[d]) = L
    /\ Len(class_val_list') = L
    /\ \A i \in 1..L : InVocabulary(class_val_list'[i])

\* every line of data read so far was well formed
WellFormedSoFar ==
    /\ PlainLabelled
    /\ \/ ndata = 0 /\ instance_list = <<>> /\ class_val_list = <<>>
       \/ ndata >= 1 /\ num_dimensions >= 1 /\ TableHolds(num_dimensions, ndata)

DimNames == <<"dim_0", "dim_1", "dim_2", "dim_3", "dim_4", "dim_5">>

\* C6: in a well-formed file without timestamps, the @data line after the
\* four tags starts the data; every well-formed labelled line of D dimensions
\* adds one row to each of D columns and its label to the labels; blank lines
\* change nothing; and at the end of L >= 1 such lines the parse returns
\* columns dim_0 .. dim_{D-1} of L rows each and the L labels in line order.
C6_WellFormedPlainFile ==
    [][/\ ( /\ status = "reading" /\ FourTags /\ ~data_started
            /\ timestamps = "False" /\ class_labels = "True"
            /\ ReadsLine /\ NextLine = TagData )
          => (PlainLabelled /\ WellFormedSoFar /\ ndata = 0)'
       /\ ( /\ WellFormedSoFar /\ ReadsLine /\ WellFormedPlain(NextLine)
            /\ (ndata >= 1 => DimensionsOf(NextLine) = num_dimensions) )
          => /\ status' = "reading" /\ ndata' = ndata + 1
             /\ TableHoldsNext(DimensionsOf(NextLine), ndata + 1)
             /\ class_val_list' = Append(class_val_list, LabelOf(NextLine))
             /\ \A d \in 1..DimensionsOf(NextLine) :
                    SubSeq(instance_list'[d], 1, ndata) =
                        (IF ndata = 0 THEN <<>> ELSE instance_list[d])
       /\ (WellFormedSoFar /\ ReadsLine /\ NextLine = <<>>)
          => (status' = "reading" /\ UNCHANGED <<metaVars, dataVars, ndata>>)
       /\ (WellFormedSoFar /\ ndata >= 1 /\ FileEnds)
          => /\ status' = "returned"
             /\ Len(result'.X) = num_dimensions
             /\ \A d \in 1..num_dimensions :
                    /\ result'.X[d] = instance_list[d]
                    /\ Len(result'.X[d]) = ndata
                    /\ result'.columns[d] = DimNames[d]
             /\ result'.y = class_val_list
             /\ Len(result'.y) = ndata
      ]_vars

\* a parse of two labelled lines of two dimensions returned
C6_Witness ==
    /\ status = "returned" /\ timestamps = "False" /\ class_labels = "True"
    /\ ndata = 2 /\ num_dimensions = 2
    /\ Len(result.X) = 2 /\ Len(result.X[1]) = 2 /\ Len(result.X[2]) = 2
    /\ Len(result.y) = 2
    /\ \A i \in 1..2 : InVocabulary(result.y[i])

\* C7: without timestamps the first data line fixes the number of
\* dimensions, its ':'-separated segments less one when labels are declared;
\* a later data line keeps it, and one with another number of dimensions ends
\* the parse with the dimension-mismatch error and no result.
C7_PlainDimensionsFixed ==
    [][( /\ status = "reading" /\ AllFiveTags /\ data_started
         /\ timestamps = "False"
         /\ ReadsLine
         /\ NextLine # <<>> /\ ~StartsWith(NextLine, <<"@">>) )
       => IF ndata = 0
          THEN status' = "reading" => num_dimensions' = DimensionsOf(NextLine)
          ELSE /\ num_dimensions' = num_dimensions
               /\ DimensionsOf(NextLine) # num_dimensions
                     => /\ status' = "raised"
                        /\ exc' = ParseError("inconsistent number of dimensions", 0, 0)
                        /\ result' = NoResult
      ]_vars

\* a later line of another number of dimensions was rejected
C7_Witness ==
    /\ IsParseError("inconsistent number of dimensions")
    /\ timestamps = "False" /\ ndata >= 1
    /\ DimensionsOf(LastSubstituted) # num_dimensions

\* C8: with timestamps, an accepted later data line never changes the number
\* of dimensions that the first data line established.
C8_StampDimensionsFixed ==
    [][( /\ status = "reading" /\ AllFiveTags /\ data_started
         /\ timestamps = "True" /\ ndata >= 1
         /\ status' = "reading" )
       => num_dimensions' = num_dimensions
      ]_vars

(***************************************************************************)
(* Data lines with timestamps, as the format describes them.               *)
(***************************************************************************)

\* the dimensions of l, the label left out when labels are declared
StampedDimensions(l) ==
    IF class_labels = "True"
    THEN SubSeq(Split(l, ":"), 1, ColonCount(l))
    ELSE Split(l, ":")

NoSpaces(s) == \A i \in 1..Len(s) : ~IsSpace(s[i])

NoParentheses(s) == \A i \in 1..Len(s) : s[i] \notin {"(", ")"}

\* dimension is (t,v),(t,v),...: every v a number, every t without parentheses
WellFormedTuples(dimension) ==
    LET p == Split(dimension, ",")
    IN  /\ dimension # <<>> /\ NoSpaces(dimension)
        /\ Len(p) % 2 = 0
        /\ \A k \in 1..Len(p) :
               /\ Len(p[k]) >= 2
               /\ IF k % 2 = 1
                  THEN p[k][1] = "(" /\ NoParentheses(Tail(p[k]))
                  ELSE /\ p[k][Len(p[k])] = ")"
                       /\ IsFloat(SubSeq(p[k], 1, Len(p[k]) - 1))

\* the timestamps of a dimension of well-formed tuples, in order
StampsOf(dimension) ==
    [k \in 1..(Len(Split(dimension, ",")) \div 2) |->
        Tail(Split(dimension, ",")[2 * k - 1])]

\* the dimensions of l that the scanner can come to by the text alone: the
\* dimension and every dimension before it is empty or well-formed tuples
Readable(l) ==
    {d \in 1..Len(StampedDimensions(l)) :
        \A e \in 1..d : \/ StampedDimensions(l)[e] = <<>>
                        \/ WellFormedTuples(StampedDimensions(l)[e])}

\* the readable dimensions of l that hold tuples
WithTuples(l) == {d \in Readable(l) : StampedDimensions(l)[d] # <<>>}

\* the first timestamp of a line with a readable tuple
FirstStamp(l) == StampsOf(StampedDimensions(l)[SetMin(WithTuples(l))])[1]

\* the kind the file is locked to when l has been started: that of the file
\* so far, or that of the first tuple of l in a file without a tuple yet
LockInt(l) ==
    IF previous_timestamp_was_int = "None" THEN IsInt(FirstStamp(l))
    ELSE previous_timestamp_was_int = "True"

\* dimension d of l has a timestamp of the other kind
OtherKind(l, d, lockInt) ==
    LET dim == StampedDimensions(l)[d]
    IN  /\ dim # <<>>
        /\ \E k \in 1..Len(StampsOf(dim)) : IsInt(StampsOf(dim)[k]) # lockInt

\* the readable dimensions of l with a tuple of the other kind
Others(l) == {d \in WithTuples(l) : OtherKind(l, d, LockInt(l))}

\* the textual timestamps of dimension d of l are dates
DatesParse(l, d) ==
    LET dim == StampedDimensions(l)[d]
    IN  dim = <<>> \/ \A k \in 1..Len(StampsOf(dim)) : DateParses(Strip(StampsOf(dim)[k]))

InconsistentError(ln, dim) ==
    ParseError("contains tuples where the timestamp format is inconsistent", ln, dim)

\* every time marker stored after the step is of the kind the file is locked to
OneKindStored ==
    timestamps' = "True" =>
        \A d \in 1..Len(instance_list') :
            \A r \in 1..Len(instance_list'[d]) :
                \A i \in 1..Len(instance_list'[d][r].index) :
                    (instance_list'[d][r].index[i].kind = "int")
                        <=> (previous_timestamp_was_int' = "True")

\* the kind, once fixed, is the same after the step
KindKept ==
    previous_timestamp_was_int # "None" =>
        /\ previous_timestamp_was_int' = previous_timestamp_was_int
        /\ prev_timestamp_was_timestamp' = prev_timestamp_was_timestamp

\* a data line with timestamps is read, and its text has a tuple
ReadsTuples ==
    /\ IsParseError("contains tuples where the timestamp format is inconsistent")
    /\ exc.dim = 2
    /\ prev_timestamp_was_timestamp = "True" /\ ndata >= 1
    /\ Others(LastSubstituted) = {2}

\* C10: a file with no line at all ends with the "empty file" error, and a
\* file whose metadata is complete and whose @data line is followed by no
\* line of data ends with the "metadata but no data" error.
C10_NoDataErrors ==
    /\ (status # "reading" /\ line_num = 0 /\ line = <<>> /\ ~metadata_started)
          => (IsParseError("empty file") /\ result = NoResult)
    /\ (status # "reading" /\ AllFiveTags /\ data_started /\ ndata = 0
            /\ LastLine \in {<<>>, TagData})
          => (IsParseError("file contained metadata but no data") /\ result = NoResult)

\* the complete header, @data and a blank line, then the end of the file
C10_Witness ==
    /\ IsParseError("file contained metadata but no data")
    /\ AllFiveTags /\ data_started /\ ndata = 0 /\ LastLine = <<>>

(***************************************************************************)
(* The end of the input, the exceptions, and the documented example.       *)
(***************************************************************************)

EmptyFileError == ParseError("empty file", 0, 0)

IncompleteError == ParseError("metadata incomplete", 0, 0)

NoDataError == ParseError("file contained metadata but no data", 0, 0)

\* C11: at the end of the input a file without a line, a file with metadata
\* but no @data line, and a file with an @data line but no instance parsed
\* each end with a parse error, and the three errors differ.
C11_ThreeEndErrors ==
    [][FileEnds =>
          /\ status' = "raised" <=> (line_num = 0 \/ ~has_data_tag \/ ndata = 0)
          /\ line_num = 0 => exc' = EmptyFileError
          /\ (line_num > 0 /\ metadata_started /\ ~has_data_tag)
                => exc' = IncompleteError
          /\ (has_data_tag /\ ndata = 0)
                => /\ exc'.type = "TsFileParseException"
                   /\ exc' # EmptyFileError
                   /\ FourTags => exc' = NoDataError
      ]_vars

\* C12: a call that does not return a result ends with TsFileParseException
\* and with no other exception, and no result is produced with an exception.
C12_OnlyParseErrors ==
    /\ status = "raised" => (exc.type = "TsFileParseException" /\ result = NoResult)
    /\ status = "returned" => exc = NoExc

\* the whole of Example was read, and nothing else
ExampleRead == matched = Len(Example) /\ line_num = Len(Example)

Finite(n) == [cls |-> "fin", sign |-> 1, mant |-> n, exp |-> 0]

\* C13: the example file of seven lines parses to one column dim_0 of two
\* rows, the series [1,2,3] and [4,5,6], with the labels ["A","B"].
C13_ExampleParses ==
    (status # "reading" /\ ExampleRead) =>
        /\ status = "returned"
        /\ result.columns[1] = "dim_0"
        /\ Len(result.X) = 1
        /\ Len(result.X[1]) = 2
        /\ result.X[1][1].data = <<Finite(1), Finite(2), Finite(3)>>
        /\ result.X[1][2].data = <<Finite(4), Finite(5), Finite(6)>>
        /\ result.y = << <<"A">>, <<"B">> >>

(***************************************************************************)
(* The metadata lines, as the tag grammar describes them.                  *)
(***************************************************************************)

\* the line read by the step, stripped and in lower case
NextClean == Cleaned[line']

Tokens(l) == Split(l, " ")

IsBoolean(w) == w \in {WordTrue, WordFalse}

ValuesMissingError ==
    ParseError("if the classlabel tag is true then class values must be supplied", 0, 0)

\* C14: before the data, the line "@classlabel true" without a class value
\* ends the parse with the error that class values must be supplied, and the
\* tag is not recorded; a line "@classlabel false", with or without further
\* tokens, is accepted and records that the file has no class labels.
C14_ClassLabelValues ==
    [][(status = "reading" /\ ~data_started /\ ReadsLine) =>
          /\ NextClean = TagClassLabel \o Sp \o WordTrue
                => /\ status' = "raised"
                   /\ exc' = ValuesMissingError
                   /\ result' = NoResult
                   /\ UNCHANGED tagFlags
          /\ ( /\ Len(Tokens(NextClean)) >= 2
               /\ Tokens(NextClean)[1] = TagClassLabel
               /\ Tokens(NextClean)[2] = WordFalse )
                => /\ status' = "reading"
                   /\ has_class_labels_tag'
                   /\ class_labels' = "False"
      ]_vars

\* "@classlabel true" was rejected, the other three tags being there
C14_Witness ==
    /\ status = "raised" /\ exc = ValuesMissingError
    /\ LastLine = TagClassLabel \o Sp \o WordTrue
    /\ has_problem_name_tag /\ has_timestamps_tag /\ has_univariate_tag
    /\ ~has_class_labels_tag

\* the shape the grammar asks of a line that starts with a tag
ValidTagLine(l) ==
    IF StartsWith(l, TagProblemName) THEN Len(Tokens(l)) >= 2
    ELSE IF StartsWith(l, TagTimestamps) \/ StartsWith(l, TagUnivariate)
    THEN Len(Tokens(l)) = 2 /\ IsBoolean(Tokens(l)[2])
    ELSE IF StartsWith(l, TagClassLabel)
    THEN Len(Tokens(l)) >= 2 /\ IsBoolean(Tokens(l)[2])
    ELSE IF StartsWith(l, TagData) THEN l = TagData
    ELSE TRUE

\* the step records the tag: its flag becomes true
Records(flag, flagNext) == ~flag /\ flagNext

\* C15: a line that starts with a tag and has not the shape the grammar asks
\* ends the parse with a parse error and records no tag; a tag is recorded
\* only by a line that starts with it and has the shape, and the values of
\* @timestamps and @classlabel are recorded as the line gives them.
C15_TagsValidated ==
    [][(status = "reading" /\ ReadsLine) =>
          /\ ~ValidTagLine(NextClean)
                => /\ status' = "raised"
                   /\ exc'.type = "TsFileParseException"
                   /\ result' = NoResult
                   /\ UNCHANGED tagFlags
          /\ Records(has_problem_name_tag, has_problem_name_tag')
                => StartsWith(NextClean, TagProblemName) /\ ValidTagLine(NextClean)
          /\ Records(has_timestamps_tag, has_timestamps_tag')
                => /\ StartsWith(NextClean, TagTimestamps) /\ ValidTagLine(NextClean)
                   /\ timestamps' = "True" <=> Tokens(NextClean)[2] = WordTrue
          /\ Records(has_univariate_tag, has_univariate_tag')
                => StartsWith(NextClean, TagUnivariate) /\ ValidTagLine(NextClean)
          /\ Records(has_class_labels_tag, has_class_labels_tag')
                => /\ StartsWith(NextClean, TagClassLabel) /\ ValidTagLine(NextClean)
                   /\ class_labels' = "True" <=> Tokens(NextClean)[2] = WordTrue
          /\ Records(has_data_tag, has_data_tag')
                => NextClean = TagData
      ]_vars

\* "@timestamps yes" was rejected after another tag had been recorded
C15_Witness ==
    /\ IsParseError("invalid timestamps value")
    /\ StartsWith(LastLine, TagTimestamps) /\ ~ValidTagLine(LastLine)
    /\ has_problem_name_tag /\ ~has_timestamps_tag

(***************************************************************************)
(* Malformed tuples, and what the errors say.                              *)
(***************************************************************************)

\* the first ')' of l, 0 when there is none
FirstClose(l) ==
    IF \E i \in 1..Len(l) : l[i] = ")"
    THEN SetMin({i \in 1..Len(l) : l[i] = ")"})
    ELSE 0

\* l starts with a tuple that is never closed
TupleUnclosed(l) == l # <<>> /\ l[1] = "(" /\ FirstClose(l) = 0

\* l starts with a tuple that has no comma inside
TupleWithoutComma(l) ==
    /\ l # <<>> /\ l[1] = "(" /\ FirstClose(l) > 0
    /\ \A i \in 2..(FirstClose(l) - 1) : l[i] # ","

\* l starts with a tuple whose text after the last comma is no number
TupleValueNotNumeric(l) ==
    /\ l # <<>> /\ l[1] = "(" /\ FirstClose(l) > 0
    /\ \E i \in 2..(FirstClose(l) - 1) :
           /\ l[i] = ","
           /\ \A j \in (i + 1)..(FirstClose(l) - 1) : l[j] # ","
           /\ ~IsFloat(SubSeq(l, i + 1, FirstClose(l) - 1))

\* a tuple of l is followed by a ',' that no tuple follows
TrailingComma(l) ==
    \E i \in 2..Len(l) :
        /\ l[i] = "," /\ l[i - 1] = ")"
        /\ i = Len(l) \/ l[i + 1] # "("

\* C16: with timestamps, a line that starts with a tuple without ')', with a
\* tuple without a comma or with a tuple whose value is not numeric, and a
\* line where a ',' after a tuple is followed by no tuple, with class labels
\* or without, each end the parse with a parse error that names the
\* dimension and the line.
C16_MalformedTuples ==
    [][( /\ status = "reading" /\ AllFiveTags /\ data_started
         /\ timestamps = "True" /\ ReadsLine
         /\ \/ TupleUnclosed(NextLine)
            \/ TupleWithoutComma(NextLine)
            \/ TupleValueNotNumeric(NextLine)
            \/ TrailingComma(NextLine) /\ ~StartsWith(NextLine, <<"@">>) )
       => /\ status' = "raised"
          /\ exc'.type = "TsFileParseException"
          /\ exc'.line = line_num + 1
          /\ exc'.dim >= 1
          /\ result' = NoResult
      ]_vars

\* C19: a parse error raised while a line is processed carries the number of
\* that line, counted from 1 and counting the blank lines, whether the line
\* is metadata, data without timestamps or data with timestamps.
C19_ErrorsNameTheLine ==
    [][(status = "reading" /\ ReadsLine /\ status' = "raised"
            /\ exc'.type = "TsFileParseException")
       => exc'.line = line_num + 1
      ]_vars

(***************************************************************************)
(* The output mode, the case of the letters, and repeated calls.           *)
(***************************************************************************)

\* C18: return_separate_X_and_y changes only the form of the value returned:
\* a parse that returns gives the same dimension columns and the same
\* sequence of labels whether the labels come as an array of their own or as
\* the column class_vals, and the table alone when there are no class labels.
C18_OutputModeOnly ==
    status = "returned" =>
        LET apart == ReturnedFor(TRUE)
            within == ReturnedFor(FALSE)
        IN  /\ result = ReturnedFor(return_separate_X_and_y)
            /\ apart.X = within.X
            /\ apart.columns = SubSeq(within.columns, 1, num_dimensions)
            /\ apart.y = within.y
            /\ class_labels # "True" =>
                   (apart = within /\ apart.kind = "frame" /\ apart.y = <<>>)

\* the lines of the input in lower case, stripped and lower-cased as the loop does
LowerCleaned == [raw \in Lines |-> Clean(Lower(raw))]

\* the step of the loop on a line that the loop cleans to l
StepOn(l) ==
    \/ Branch(l) \in {"blank", "ignored"} /\ SkipStep
    \/ Branch(l) = "problemname" /\ ProblemNameStep(l)
    \/ Branch(l) = "timestamps" /\ TimestampsStep(l)
    \/ Branch(l) = "univariate" /\ UnivariateStep(l)
    \/ Branch(l) = "classlabel" /\ ClassLabelStep(l)
    \/ Branch(l) = "data tag" /\ DataTagStep(l)
    \/ Branch(l) = "data" /\ (NoMetadataStep \/ PlainDataStep(l) \/ StampDataStep(l))

\* C17: every step that reads a line is the step that the same line in lower
\* case makes from the same state: it raises the same exception or changes
\* the locals in the same way; so a file and the file in lower case end in
\* the same error or in the same table and labels.
C17_CaseInsensitive ==
    [][(status = "reading" /\ ReadsLine) => StepOn(LowerCleaned[line'])]_vars

\* a data line with a capital letter was parsed, and its label is in lower case
C17_Witness ==
    /\ status = "returned" /\ ndata >= 2
    /\ Lower(line) # line
    /\ class_labels = "True"
    /\ class_val_list[Len(class_val_list)] = LabelOf(Lower(line))

(***************************************************************************)
(* Missing values, tuples, empty dimensions, blank and ignored lines.      *)
(***************************************************************************)

\* a line with the missing-value placeholder
HasPlaceholder(l) == \E i \in 1..Len(l) : l[i] = "?"

\* C21: a data line is handled as the same line with every '?' already
\* replaced by replace_missing_vals_with, with and without timestamps: the
\* step raises the same exception or stores the same series and label; a
\* classlabel line is not substituted, its values are stored as written.
C21_MissingValuesSubstituted ==
    [][(status = "reading" /\ ReadsLine) =>
          /\ (Branch(NextClean) = "data" /\ FullMetadata) =>
                 /\ ~HasPlaceholder(NextLine)
                 /\ StepOn(NextLine)
          /\ (Branch(NextClean) = "classlabel" /\ status' = "reading") =>
                 class_label_list' =
                     SubSeq(Tokens(NextClean), 3, Len(Tokens(NextClean)))
      ]_vars

\* a line with timestamps and a '?' was stored with the replacement "0"
C21_Witness ==
    /\ status = "reading" /\ LastIsData /\ ndata >= 1
    /\ timestamps = "True"
    /\ replace_missing_vals_with = <<"0">>
    /\ HasPlaceholder(line)
    /\ instance_list[1][Len(instance_list[1])].data = <<FloatValue(<<"0">>)>>
    /\ \E i \in 1..Len(class_label_list) : class_label_list[i] = <<"?">>

\* the pieces of a line that end with ')', and what follows the last ')'
Pieces(l) == Split(l, ")")

TupleCount(l) == Len(Pieces(l)) - 1

\* where the '(' of piece k is
OpenAt(l, k) == SetMin({i \in 1..Len(Pieces(l)[k]) : Pieces(l)[k][i] = "("})

\* what stands between tuple k and the tuple before it
Before(l, k) == SubSeq(Pieces(l)[k], 1, OpenAt(l, k) - 1)

\* the text of tuple k between its parentheses
TupleText(l, k) == SubSeq(Pieces(l)[k], OpenAt(l, k) + 1, Len(Pieces(l)[k]))

LastCommaAt(t) == SetMax({i \in 1..Len(t) : t[i] = ","})

\* the timestamp of tuple k: everything before the last comma
StampText(l, k) == SubSeq(TupleText(l, k), 1, LastCommaAt(TupleText(l, k)) - 1)

\* the value of tuple k: the text after the last comma
ValueText(l, k) ==
    SubSeq(TupleText(l, k), LastCommaAt(TupleText(l, k)) + 1, Len(TupleText(l, k)))

\* l is tuples '(...)' separated by ',' or ':', each with a comma and a number
\* after its last comma
TuplesShape(l) ==
    /\ TupleCount(l) >= 1
    /\ \A k \in 1..TupleCount(l) :
           /\ \E i \in 1..Len(Pieces(l)[k]) : Pieces(l)[k][i] = "("
           /\ Before(l, k) = <<>> \/ (k > 1 /\ Before(l, k) \in {<<",">>, <<":">>})
           /\ \E i \in 1..Len(TupleText(l, k)) : TupleText(l, k)[i] = ","
           /\ IsFloat(ValueText(l, k))

\* the dimension of tuple k, counted from 1, and its place in the dimension
DimOf(l, k) == 1 + Cardinality({j \in 2..k : Before(l, j) = <<":">>})

PlaceOf(l, k) == Cardinality({j \in 1..k : DimOf(l, j) = DimOf(l, k)})

\* the time marker of a timestamp: an int when int() takes it, a date otherwise
MarkerOf(t) ==
    IF IsInt(t) THEN Marker("int", IntValue(t), <<>>) ELSE DateValue(Strip(t))

\* what a line of tuples says: for each tuple its timestamp, value, dimension
\* and place, and what follows the last tuple
TuplesOf(l) ==
    IF ~TuplesShape(l)
    THEN [shaped |-> FALSE, stamp |-> <<>>, value |-> <<>>, dim |-> <<>>,
          place |-> <<>>, rest |-> <<>>]
    ELSE [shaped |-> TRUE,
          stamp |-> [k \in 1..TupleCount(l) |-> StampText(l, k)],
          value |-> [k \in 1..TupleCount(l) |-> FloatValue(ValueText(l, k))],
          dim |-> [k \in 1..TupleCount(l) |-> DimOf(l, k)],
          place |-> [k \in 1..TupleCount(l) |-> PlaceOf(l, k)],
          rest |-> Pieces(l)[Len(Pieces(l))]]

TuplesTable ==
    [r \in Replacements |-> [raw \in Lines |-> TuplesOf(Substituted[r][raw])]]

\* the tuples of the line read by the step, and of the last line read
NextTuples == TuplesTable[replace_missing_vals_with][line']

LastTuples == TuplesTable[replace_missing_vals_with][line]

\* a line of tuples followed by ':' and a label when labels are declared
TuplesLine(t) ==
    /\ t.shaped
    /\ IF class_labels = "True"
       THEN /\ Len(t.rest) >= 2 /\ t.rest[1] = ":"
            /\ InVocabulary(Strip(Tail(t.rest)))
       ELSE t.rest = <<>>

\* the timestamps of the line are of one kind, that of the file if it has
\* one, and the textual ones are dates
AcceptedStamps(t) ==
    /\ \A k \in 1..Len(t.stamp) :
           /\ IsInt(t.stamp[k]) <=> IsInt(t.stamp[1])
           /\ IsInt(t.stamp[k]) \/ DateParses(Strip(t.stamp[k]))
    /\ previous_timestamp_was_int # "None" =>
           (IsInt(t.stamp[1]) <=> previous_timestamp_was_int = "True")

\* C22: in a line of tuples the value of every tuple is the text after its
\* last comma and the timestamp is all that stands before that comma, commas
\* and ':' included; the timestamp is an int when it parses as one and text
\* (stored as a date) otherwise, never both; the line is accepted when its
\* timestamps are of the kind of the file and its dimensions are as many as
\* those of the file, and every tuple is stored so.
C22_TupleLastComma ==
    [][( /\ status = "reading" /\ AllFiveTags /\ data_started
         /\ timestamps = "True"
         /\ ReadsLine /\ TuplesLine(NextTuples) /\ AcceptedStamps(NextTuples)
         /\ num_dimensions \in {NoneDim, NextTuples.dim[Len(NextTuples.dim)]} )
       => LET t == NextTuples
          IN  /\ status' = "reading"
              /\ Len(instance_list') >= t.dim[Len(t.dim)]
              /\ \A k \in 1..Len(t.dim) :
                     LET col == instance_list'[t.dim[k]]
                         series == col[Len(col)]
                     IN  /\ Len(instance_list) >= t.dim[k] =>
                                Len(col) = Len(instance_list[t.dim[k]]) + 1
                         /\ series.index[t.place[k]] = MarkerOf(t.stamp[k])
                         /\ series.data[t.place[k]] = t.value[k]
                         /\ Len(series.data)
                                = Cardinality({j \in 1..Len(t.dim) : t.dim[j] = t.dim[k]})
              /\ (previous_timestamp_was_int' = "True") <=> IsInt(t.stamp[1])
              /\ (prev_timestamp_was_timestamp' = "True") <=> ~IsInt(t.stamp[1])
      ]_vars

\* a tuple whose timestamp holds a comma was stored with its date and value
C22_Witness ==
    /\ status = "reading" /\ ndata >= 1 /\ timestamps = "True"
    /\ TuplesLine(LastTuples)
    /\ \E i \in 1..Len(LastTuples.stamp[1]) : LastTuples.stamp[1][i] = ","
    /\ instance_list[1][Len(instance_list[1])].index
           = <<Marker("date", 20210101, <<>>)>>
    /\ instance_list[1][Len(instance_list[1])].data = <<FloatValue(<<"6">>)>>

\* the dimensions of a data line as its text between the ':' gives them
TextDimensions(l) ==
    IF class_labels = "True"
    THEN SubSeq(Split(l, ":"), 1, ColonCount(l))
    ELSE Split(l, ":")

\* dimension d of the line is empty: without timestamps an empty segment,
\* with timestamps a ':' where a tuple could start
EmptyDimensionAt(l, d) ==
    /\ Strip(TextDimensions(l)[d]) = <<>>
    /\ timestamps = "True" =>
           (class_labels = "True" \/ d < Len(TextDimensions(l)))

\* C23: when a data line with an empty dimension is accepted, the empty
\* dimension counts among the dimensions of the line, the series stored for
\* it has length zero, and every column of the table has gained exactly one
\* entry.
C23_EmptyDimension ==
    [][( /\ status = "reading" /\ AllFiveTags /\ data_started
         /\ ReadsLine /\ status' = "reading"
         /\ Branch(NextClean) = "data"
         /\ \E d \in 1..Len(TextDimensions(NextLine)) : EmptyDimensionAt(NextLine, d) )
       => /\ num_dimensions' = Len(TextDimensions(NextLine))
          /\ \A d \in 1..Len(TextDimensions(NextLine)) :
                 EmptyDimensionAt(NextLine, d) =>
                     /\ d <= Len(instance_list')
                     /\ instance_list'[d][Len(instance_list'[d])].data = <<>>
          /\ \A d \in 1..Len(instance_list') :
                 Len(instance_list'[d]) =
                     (IF d <= Len(instance_list) THEN Len(instance_list[d]) ELSE 0) + 1
          /\ Len(instance_list') >= Len(instance_list)
      ]_vars

\* the step changes nothing but the line counter and the line read
OnlyCounts ==
    /\ status' = "reading"
    /\ line_num' = line_num + 1
    /\ UNCHANGED <<params, metaVars, dataVars, exc, result, ndata>>

\* C24: a blank line, or one of white space only, read at any point of the
\* file, before, between or after the tags and the data, raises nothing and
\* changes nothing but the line counter.
C24_BlankLinesChangeNothing ==
    [][(status = "reading" /\ ReadsLine /\ NextClean = <<>>) => OnlyCounts]_vars

\* a line of white space was read after a line of data
C24_Witness ==
    /\ status = "reading" /\ ndata >= 1 /\ line_num >= 7
    /\ line = <<" ">>
    /\ Len(instance_list) >= 1 /\ Len(instance_list[1]) = ndata

\* the line read by the step is neither blank nor a tag line
NextIsOther ==
    /\ NextClean # <<>>
    /\ ~StartsWith(NextClean, TagProblemName) /\ ~StartsWith(NextClean, TagTimestamps)
    /\ ~StartsWith(NextClean, TagUnivariate) /\ ~StartsWith(NextClean, TagClassLabel)
    /\ ~StartsWith(NextClean, TagData)

\* C26: before the @data line a line that is neither blank nor a tag line
\* raises nothing and changes nothing but the line counter; when the file
\* ends after such lines and blank lines only, the "empty file" error is not
\* raised.
C26_OtherLinesIgnored ==
    [][/\ (status = "reading" /\ ReadsLine /\ ~data_started /\ NextIsOther)
             => OnlyCounts
       /\ (FileEnds /\ line_num >= 1 /\ ~metadata_started /\ ~data_started)
             => exc' # EmptyFileError
      ]_vars

\* the file ended after a line that is no tag line, and no tag line was read
C26_Witness ==
    /\ status = "raised" /\ line_num >= 1
    /\ ~metadata_started /\ ~data_started
    /\ LastLine = <<"#"," ","x">>
    /\ exc # EmptyFileError

\* the scan state of a line that takes nothing from the line before: the
\* locals of the file as they are, the locals of the scan as at the start
FreshScan ==
    [exc |-> NoExc,
     num_dimensions |-> num_dimensions,
     is_first_case |-> is_first_case,
     instance_list |-> instance_list,
     class_val_list |-> class_val_list,
     previous_timestamp_was_int |-> previous_timestamp_was_int,
     prev_timestamp_was_timestamp |-> prev_timestamp_was_timestamp,
     has_another_value |-> FALSE,
     has_another_dimension |-> FALSE,
     timestamp_for_dim |-> <<>>,
     values_for_dimension |-> <<>>,
     this_line_num_dim |-> 0,
     char_num |-> 0]

\* C25: whatever the scan of the last data line left in the dimension index,
\* the two pending flags and the accumulated timestamps and values, a data
\* line with timestamps is scanned from the start values of these: its step
\* is the one that the tag flags, the dimension count, the timestamp kind
\* and the instances and labels of the file give with a fresh scan state.
C25_ScanStateReset ==
    [][( /\ status = "reading" /\ ReadsLine
         /\ Branch(NextClean) = "data" /\ FullMetadata /\ timestamps = "True" )
       => Ends(ScanEnd(ScanLoop(FreshScan, NextLine)))
      ]_vars

\* a second line was scanned after a scan that left its locals changed
C25_Witness ==
    /\ status = "reading" /\ timestamps = "True" /\ ndata >= 2
    /\ scan.bound /\ scan.this_line_num_dim >= 1
    /\ scan.this_line_num_dim = num_dimensions
    /\ \A d \in 1..num_dimensions : Len(instance_list[d]) = ndata

(***************************************************************************)
(* The array of the encoder.                                               *)
(***************************************************************************)

\* the series of instance i in dimension d of the table returned
SeriesOf(i, d) == result.X[d][i].data

\* the greatest length of a series of the table
MaxLength ==
    SetMax({Len(SeriesOf(i, d)) : i \in 1..Len(result.X[1]), d \in 1..Len(result.X)})

\* instances, dimensions, max length
FullShape == <<Len(result.X[1]), Len(result.X), MaxLength>>

\* is_end_of_series
IsEndOfSeries(v) == v.cls = "inf" /\ v.sign = -1

\* the cell of the array for the indexes idx along the axes of a shape whose
\* axes of length one the array has lost
RECURSIVE CellAt(_, _, _)
CellAt(data, idx, shape) ==
    IF shape = <<>> THEN data
    ELSE IF Head(shape) = 1 THEN CellAt(data, Tail(idx), Tail(shape))
    ELSE CellAt(data[Head(idx)], Tail(idx), Tail(shape))

\* the cell of instance i, dimension d and position t
Cell(i, d, t) == CellAt(x.data, <<i, d, t>>, FullShape)

\* C27 as stated: the array has the shape (instances, dimensions, max
\* length), the first positions of every row hold the values of the series,
\* in order, and every other position holds the end-of-series sentinel.
C27_PaddedSeriesValues ==
    status = "encoded" =>
        /\ x.shape = FullShape
        /\ \A i \in 1..FullShape[1] : \A d \in 1..FullShape[2] :
               \A t \in 1..FullShape[3] :
                   IF t <= Len(SeriesOf(i, d))
                   THEN x.data[i][d][t] = SeriesOf(i, d)[t]
                   ELSE IsEndOfSeries(x.data[i][d][t])

\* C27, amended: the array has the shape (instances, dimensions, max length)
\* without its axes of length one, the first positions of every row hold the
\* values of the series converted to float32, in order, and every other
\* position holds the end-of-series sentinel.
C27_PaddedSeriesSingles ==
    status = "encoded" =>
        /\ x.shape = SqueezedShape(FullShape)
        /\ \A i \in 1..FullShape[1] : \A d \in 1..FullShape[2] :
               \A t \in 1..FullShape[3] :
                   IF t <= Len(SeriesOf(i, d))
                   THEN Cell(i, d, t) = Float32(SeriesOf(i, d)[t])
                   ELSE IsEndOfSeries(Cell(i, d, t))

\* two instances of one dimension and of different lengths were encoded, the
\* shorter one padded, and the axis of the dimension is gone
C27_Witness ==
    /\ status = "encoded" /\ FullShape = <<2, 1, 3>> /\ x.shape = <<2, 3>>
    /\ Len(SeriesOf(2, 1)) = 1
    /\ x.data[2] = <<[cls |-> "fin", sign |-> 1, mant |-> 16777216, exp |-> 0], EoS, EoS>>
    /\ ~IsEndOfSeries(x.data[1][3])

====
